---- MODULE Spec2Model ----
(***************************************************************************)
(* Model of the clawworker admin control layer.                            *)
(*                                                                         *)
(*   Spec         one administrative request passing through the access    *)
(*                middleware (auth/middleware.ts) in front of the admin    *)
(*                routes (routes/api.ts).                                  *)
(*   SpecExtract  the pure token extraction functions applied to bounded   *)
(*                request headers.                                         *)
(*                                                                         *)
(* JavaScript strings that the code only compares or tests for truthiness  *)
(* are TLA+ strings.  Strings the code cuts up (the Cookie header and the  *)
(* token taken out of it) are sequences of lexemes: "N" stands for the     *)
(* literal text CF_Authorization, every other lexeme is one character.     *)
(***************************************************************************)
EXTENDS Integers, Sequences, FiniteSets, TLC

VARIABLES
  env,          \* c.env: the worker's environment bindings
  opts,         \* AccessMiddlewareOptions: type, redirectOnMissing
  req,          \* the request: query token, headers, cookie
  pc,           \* position of the middleware / handler for this request
  accessUser,   \* c.get('accessUser'): {} until c.set, then {identity}
  response,     \* the response the middleware returned (NoResponse until then)
  nextCalls,    \* number of times next() was invoked
  verifyCalls,  \* arguments of every verifyAccessJWT call
  verifyOk,     \* TRUE once a verifyAccessJWT call resolved with a payload
  sandboxOps,   \* business-handler steps performed against the sandbox
  extracted,    \* SpecExtract: results of extractJWT / extractGatewayToken
  sbx,          \* the sandbox: credential file, last-sync marker, directories
  storage,      \* locals of the storage operation in flight
  toolRuns,     \* every execution of the transfer tool so far
  outcome,      \* what the last finished storage operation returned
  clock,        \* the sandbox's wall clock
  devices,      \* the device registry and the CLI processes run against it
  pairing,      \* locals of the pairing handler in flight
  bucket,       \* the R2 bucket: what the last config transfer left there
  update        \* locals of the version-update handler in flight

\* the state of the storage and pairing handlers
otherVars ==
  <<sbx, storage, toolRuns, outcome, clock, devices, pairing, bucket, update>>

vars == <<env, opts, req, pc, accessUser, response, nextCalls, verifyCalls,
          verifyOk, sandboxOps, extracted, otherVars>>

-----------------------------------------------------------------------------
(* JavaScript values *)

Undef == "<undefined>"
Null == "<null>"
UndefSeq == <<"<undefined>">>
NullSeq == <<"<null>">>

\* !!x for string | undefined | null
Truthy(x) == x # Undef /\ x # Null /\ x # ""

\* !!x for a lexeme string | undefined | null
TruthySeq(s) == s # UndefSeq /\ s # NullSeq /\ s # <<>>

\* a ?? b
Coalesce(a, b) == IF a # Undef /\ a # Null THEN a ELSE b

-----------------------------------------------------------------------------
(* String functions used by extractJWT *)

\* index of the first occurrence of lexeme ch in s, 0 if none
RECURSIVE IndexOf(_, _, _)
IndexOf(s, ch, i) ==
  IF i > Len(s) THEN 0
  ELSE IF s[i] = ch THEN i
  ELSE IndexOf(s, ch, i + 1)

\* String.prototype.split(sep) for a one-lexeme separator
RECURSIVE Split(_, _)
Split(s, sep) ==
  LET i == IndexOf(s, sep, 1) IN
  IF i = 0 THEN <<s>>
  ELSE <<SubSeq(s, 1, i - 1)>> \o Split(SubSeq(s, i + 1, Len(s)), sep)

RECURSIVE TrimStart(_)
TrimStart(s) ==
  IF s # <<>> /\ Head(s) = " " THEN TrimStart(Tail(s)) ELSE s

RECURSIVE TrimEnd(_)
TrimEnd(s) ==
  IF s # <<>> /\ s[Len(s)] = " " THEN TrimEnd(SubSeq(s, 1, Len(s) - 1)) ELSE s

\* String.prototype.trim()
Trim(s) == TrimEnd(TrimStart(s))

\* String.prototype.startsWith(p)
StartsWith(s, p) == Len(s) >= Len(p) /\ SubSeq(s, 1, Len(p)) = p

\* the literal 'CF_Authorization='
CookiePrefix == <<"N", "=">>

\* Array.prototype.find: index of the first cookie whose trimmed text starts
\* with 'CF_Authorization=', 0 if none
RECURSIVE FindCookie(_, _)
FindCookie(cookies, i) ==
  IF i > Len(cookies) THEN 0
  ELSE IF StartsWith(Trim(cookies[i]), CookiePrefix) THEN i
  ELSE FindCookie(cookies, i + 1)

\* headers.get('Cookie')?.split(';').find(...)?.split('=')[1]
CookieJWT(cookieHeader) ==
  IF cookieHeader = NullSeq THEN UndefSeq
  ELSE LET cookies == Split(cookieHeader, ";")
           k == FindCookie(cookies, 1)
       IN IF k = 0 THEN UndefSeq ELSE Split(cookies[k], "=")[2]

\* extractJWT(c): jwtHeader || jwtCookie || null
extractJWT(jwtHeader, cookieHeader) ==
  LET jwtCookie == CookieJWT(cookieHeader) IN
  IF TruthySeq(jwtHeader) THEN jwtHeader
  ELSE IF TruthySeq(jwtCookie) THEN jwtCookie
  ELSE NullSeq

\* mutant: headerToken || queryToken || null
extractGatewayToken_headerFirst(queryToken, headerToken) ==
  IF Truthy(headerToken) THEN headerToken
  ELSE IF Truthy(queryToken) THEN queryToken
  ELSE Null

\* extractGatewayToken(c): queryToken || headerToken || null
extractGatewayToken(queryToken, headerToken) ==
  IF Truthy(queryToken) THEN queryToken
  ELSE IF Truthy(headerToken) THEN headerToken
  ELSE Null

-----------------------------------------------------------------------------
(* Configuration *)

\* mutant: the flag compared with the wrong literal
isDevMode_wrongLiteral(e) == e.DEV_MODE = "1"

isDevMode(e) == e.DEV_MODE = "true"

isE2ETestMode(e) == e.E2E_TEST_MODE = "true"

\* env.GATEWAY_TOKEN ?? env.MOLTBOT_GATEWAY_TOKEN
getGatewayToken(e) == Coalesce(e.GATEWAY_TOKEN, e.MOLTBOT_GATEWAY_TOKEN)

\* mutant: the gateway token tested for being defined, not for being non-empty
isBootstrapMode_definedOnly(e) ==
  LET hasAccess == Truthy(e.CF_ACCESS_TEAM_DOMAIN) /\ Truthy(e.CF_ACCESS_AUD)
  IN ~hasAccess /\ getGatewayToken(e) # Undef

isBootstrapMode(e) ==
  LET hasAccess == Truthy(e.CF_ACCESS_TEAM_DOMAIN) /\ Truthy(e.CF_ACCESS_AUD)
  IN ~hasAccess /\ Truthy(getGatewayToken(e))

-----------------------------------------------------------------------------
(* Bounds and sampled inputs *)

\* most sandbox operations one handler run performs in the model
MaxHandlerSteps == 2

\* longest Cookie header (in lexemes) drawn by SpecExtract
MaxCookieLen == 5

TeamDomain == "team.cloudflareaccess.com"
Audience == "aud123"

Envs ==
  [DEV_MODE : {Undef, "true", "false"}, E2E_TEST_MODE : {Undef, "true"},
   CF_ACCESS_TEAM_DOMAIN : {Undef, TeamDomain},
   CF_ACCESS_AUD : {Undef, Audience},
   GATEWAY_TOKEN : {Undef, "", "my-secret-token"},
   MOLTBOT_GATEWAY_TOKEN : {Undef, "legacy-token"}]

Options == [type : {"json", "html"}, redirectOnMissing : BOOLEAN]

\* url.searchParams.get('token'): null when the parameter is missing
QueryTokens == {Null, "", "my-secret-token", "legacy-token", "wrong-token"}
\* c.req.header('X-Gateway-Token'): undefined when the header is missing
GatewayHeaders == {Undef, "my-secret-token", "wrong-token"}
\* c.req.header('CF-Access-JWT-Assertion')
JwtHeaders == {UndefSeq, <<>>, <<"g">>, <<"e">>, <<"w">>, <<"x">>}
\* headers.get('Cookie'): CF_Authorization=h ; a=b
CookieHeaders == {NullSeq, <<"N", "=", "h">>, <<"a", "=", "b">>}

Requests ==
  [queryToken : QueryTokens, gatewayTokenHeader : GatewayHeaders,
   jwtHeader : JwtHeaders, cookie : CookieHeaders]

-----------------------------------------------------------------------------
(* The token verifier (auth/jwt.ts) *)

\* what each signed token of the model asserts
TokenClaims(jwt) ==
  CASE jwt = <<"g">> -> [iss |-> TeamDomain, aud |-> Audience, expired |-> FALSE,
                         email |-> "alice@example.com", name |-> "Alice"]
    [] jwt = <<"h">> -> [iss |-> TeamDomain, aud |-> Audience, expired |-> FALSE,
                         email |-> "bob@example.com", name |-> "Bob"]
    [] jwt = <<"e">> -> [iss |-> TeamDomain, aud |-> Audience, expired |-> TRUE,
                         email |-> "alice@example.com", name |-> "Alice"]
    [] jwt = <<"w">> -> [iss |-> TeamDomain, aud |-> "other-aud", expired |-> FALSE,
                         email |-> "mallory@example.com", name |-> "Mallory"]
    [] OTHER -> [iss |-> "", aud |-> "", expired |-> FALSE, email |-> "", name |-> ""]

\* the one opaque error every failed verification throws
VerificationError == "JWT verification failed"

\* verifyAccessJWT(token, teamDomain, expectedAud): the payload, or the
\* error it throws.  A token verifies when it was signed by the issuer, has
\* not expired and carries exactly the expected audience.
verifyAccessJWT(jwt, teamDomain, expectedAud) ==
  LET t == TokenClaims(jwt) IN
  IF t.iss # "" /\ t.iss = teamDomain /\ ~t.expired /\ t.aud = expectedAud
  THEN [ok |-> TRUE, message |-> "", email |-> t.email, name |-> t.name]
  ELSE [ok |-> FALSE, message |-> VerificationError, email |-> "", name |-> ""]

-----------------------------------------------------------------------------
(* Responses of the middleware *)

NoResponse ==
  [shape |-> "none", status |-> 0, error |-> "", hint |-> "", details |-> "",
   location |-> <<>>]

\* c.json({error, hint | details}, status)
Json(status, error, hint, details) ==
  [shape |-> "json", status |-> status, error |-> error, hint |-> hint,
   details |-> details, location |-> <<>>]

\* c.html(`<h1>heading</h1><p>text</p>`, status)
Html(status, heading, text) ==
  [shape |-> "html", status |-> status, error |-> heading, hint |-> text,
   details |-> "", location |-> <<>>]

\* c.redirect(`https://${teamDomain}`, 302)
Redirect(teamDomain) ==
  [shape |-> "redirect", status |-> 302, error |-> "", hint |-> "",
   details |-> "", location |-> <<"https://", teamDomain>>]

DevUser == [email |-> "dev@localhost", name |-> "Dev User"]

BootstrapUser == [email |-> "bootstrap", name |-> "Setup (Gateway Token)"]

\* 401 of bootstrap mode
DenyBootstrap(type) ==
  IF type = "json"
  THEN Json(401, "Unauthorized",
            "Add ?token=YOUR_GATEWAY_TOKEN to the URL, or set up Cloudflare Access for production",
            "")
  ELSE Html(401, "Admin UI - Authentication Required",
            "Add your gateway token to the URL: /_admin/?token=YOUR_TOKEN")

\* 500 when neither Access nor a gateway token is configured
DenyNotConfigured(type) ==
  IF type = "json"
  THEN Json(500, "Cloudflare Access not configured",
            "Set CF_ACCESS_TEAM_DOMAIN and CF_ACCESS_AUD, or ensure GATEWAY_TOKEN is set for bootstrap mode",
            "")
  ELSE Html(500, "Admin UI Not Configured",
            "Set CF_ACCESS_TEAM_DOMAIN and CF_ACCESS_AUD, or ensure GATEWAY_TOKEN is set.")

\* mutant: redirectOnMissing honoured whatever the response type
DenyMissingJWT_noTypeCheck(o, teamDomain) ==
  IF o.redirectOnMissing THEN Redirect(teamDomain)
  ELSE IF o.type = "json"
  THEN Json(401, "Unauthorized",
            "Missing Cloudflare Access JWT. Ensure this route is protected by Cloudflare Access.",
            "")
  ELSE Html(401, "Unauthorized", "Missing Cloudflare Access token.")

\* no JWT in the request
DenyMissingJWT(o, teamDomain) ==
  IF o.type = "html" /\ o.redirectOnMissing THEN Redirect(teamDomain)
  ELSE IF o.type = "json"
  THEN Json(401, "Unauthorized",
            "Missing Cloudflare Access JWT. Ensure this route is protected by Cloudflare Access.",
            "")
  ELSE Html(401, "Unauthorized", "Missing Cloudflare Access token.")

\* the catch block around verifyAccessJWT and next()
DenyInvalidJWT(type, message) ==
  IF type = "json" THEN Json(401, "Unauthorized", "", message)
  ELSE Html(401, "Unauthorized",
            "Your Cloudflare Access session is invalid or expired.")

\* mutant: a request without a token passes the comparison
GatewayTokenMatches_acceptsAbsent(e, r) ==
  LET providedToken == extractGatewayToken(r.queryToken, r.gatewayTokenHeader)
      gatewayToken == getGatewayToken(e)
  IN ~Truthy(providedToken) \/ providedToken = gatewayToken

\* providedToken && gatewayToken && providedToken === gatewayToken
GatewayTokenMatches(e, r) ==
  LET providedToken == extractGatewayToken(r.queryToken, r.gatewayTokenHeader)
      gatewayToken == getGatewayToken(e)
  IN Truthy(providedToken) /\ Truthy(gatewayToken) /\ providedToken = gatewayToken

\* !teamDomain || !expectedAud
AccessUnconfigured(e) ==
  ~Truthy(e.CF_ACCESS_TEAM_DOMAIN) \/ ~Truthy(e.CF_ACCESS_AUD)

-----------------------------------------------------------------------------
(* The storage and pairing handlers at rest *)

\* no version: the override file does not exist, no package is installed
NoVersion == <<"<none>">>

\* the container: content of the credential file (none: <<>>), time in the
\* last-sync marker (none: 0), which directories exist, content of the
\* version-override file, the installed openclaw version, whether the
\* gateway process runs
EmptySandbox ==
  [conf |-> <<>>, marker |-> 0, openclaw |-> FALSE, clawdbot |-> FALSE,
   workspace |-> FALSE, skills |-> FALSE, override |-> NoVersion,
   installed |-> NoVersion, gateway |-> FALSE]

\* the bucket's copy of the version-override file
EmptyBucket == [override |-> NoVersion]

NoUpdate == [at |-> "idle"]

\* proc.exitCode of a process that has not exited
NoExitCode == -1

NoRunResult ==
  [stdout |-> <<>>, stderr |-> <<>>, success |-> FALSE,
   exitCode |-> NoExitCode]

NoCall ==
  [op |-> "none", at |-> "idle", phase |-> "none", configDir |-> Null,
   result |-> NoRunResult, configOk |-> FALSE, sandboxCalls |-> 0,
   confBefore |-> <<>>, markerBefore |-> 0]

NoOutcome == [kind |-> "none"]

\* the message of a rejected sandbox call
SandboxErrors == {"sandbox unavailable"}

NoDevices == [pending |-> <<>>, procs |-> <<>>]

NoPairing == [op |-> "none"]

\* the storage and pairing state of a specification that does not use it
OtherIdle ==
  /\ sbx = EmptySandbox
  /\ storage = NoCall
  /\ toolRuns = {}
  /\ outcome = NoOutcome
  /\ clock = 0
  /\ devices = NoDevices
  /\ pairing = NoPairing
  /\ bucket = EmptyBucket
  /\ update = NoUpdate

-----------------------------------------------------------------------------
(* One request through adminApi.use('*', createAccessMiddleware(...)) *)

Init ==
  /\ env \in Envs
  /\ opts \in Options
  /\ req \in Requests
  /\ pc = "start"
  /\ accessUser = {}
  /\ response = NoResponse
  /\ nextCalls = 0
  /\ verifyCalls = <<>>
  /\ verifyOk = FALSE
  /\ sandboxOps = {}
  /\ extracted = <<>>
  /\ OtherIdle

\* c.set('accessUser', user); next()
Allow(user, at) ==
  /\ accessUser' = {user}
  /\ nextCalls' = nextCalls + 1
  /\ pc' = at
  /\ UNCHANGED response

\* mutant: the response is built but not returned, and next() runs
Deny_fallsThrough(resp) ==
  /\ response' = resp
  /\ nextCalls' = nextCalls + 1
  /\ pc' = "nextDev"
  /\ UNCHANGED accessUser

\* return c.json(...) / c.html(...) / c.redirect(...)
Deny(resp) ==
  /\ response' = resp
  /\ pc' = "done"
  /\ UNCHANGED <<accessUser, nextCalls>>

\* mutant: a matching gateway token is accepted before Access is consulted
Branch_tokenFirst(e, r) ==
  IF isDevMode(e) \/ isE2ETestMode(e) THEN "dev"
  ELSE IF GatewayTokenMatches(e, r) THEN "bootstrapAllow"
  ELSE IF AccessUnconfigured(e)
  THEN IF isBootstrapMode(e) THEN "bootstrapDeny" ELSE "notConfigured"
  ELSE IF ~TruthySeq(extractJWT(r.jwtHeader, r.cookie)) THEN "missingJWT"
  ELSE "verify"

\* the branch the middleware takes from its entry to its first await or
\* return: the if-chain of lines 1258-1322
Branch(e, r) ==
  IF isDevMode(e) \/ isE2ETestMode(e) THEN "dev"
  ELSE IF AccessUnconfigured(e)
  THEN IF isBootstrapMode(e)
       THEN IF GatewayTokenMatches(e, r) THEN "bootstrapAllow"
            ELSE "bootstrapDeny"
       ELSE "notConfigured"
  ELSE IF ~TruthySeq(extractJWT(r.jwtHeader, r.cookie)) THEN "missingJWT"
  ELSE "verify"

\* the middleware from its entry to its first await or return
Gate ==
  /\ pc = "start"
  /\ LET b == Branch(env, req) IN
     CASE b = "dev" -> Allow(DevUser, "nextDev") /\ UNCHANGED verifyCalls
       [] b = "bootstrapAllow" ->
            Allow(BootstrapUser, "nextBootstrap") /\ UNCHANGED verifyCalls
       [] b = "bootstrapDeny" ->
            Deny(DenyBootstrap(opts.type)) /\ UNCHANGED verifyCalls
       [] b = "notConfigured" ->
            Deny(DenyNotConfigured(opts.type)) /\ UNCHANGED verifyCalls
       [] b = "missingJWT" ->
            Deny(DenyMissingJWT(opts, env.CF_ACCESS_TEAM_DOMAIN))
            /\ UNCHANGED verifyCalls
       [] b = "verify" ->
            /\ verifyCalls' =
                 Append(verifyCalls,
                        [jwt |-> extractJWT(req.jwtHeader, req.cookie),
                         teamDomain |-> env.CF_ACCESS_TEAM_DOMAIN,
                         expectedAud |-> env.CF_ACCESS_AUD])
            /\ pc' = "verifying"
            /\ UNCHANGED <<accessUser, response, nextCalls>>
  /\ UNCHANGED <<env, opts, req, verifyOk, sandboxOps, extracted,
                 otherVars>>

\* mutant: the token's claims are used whether or not verification succeeded
VerifyDone_trustsClaims ==
  /\ pc = "verifying"
  /\ LET call == verifyCalls[Len(verifyCalls)]
         t == TokenClaims(call.jwt)
     IN Allow([email |-> t.email, name |-> t.name], "nextJWT")
  /\ UNCHANGED <<env, opts, req, verifyCalls, verifyOk, sandboxOps, extracted,
                 otherVars>>

\* mutant: the denial explains which check the token failed
VerifyDone_explainsFailure ==
  /\ pc = "verifying"
  /\ LET call == verifyCalls[Len(verifyCalls)]
         payload == verifyAccessJWT(call.jwt, call.teamDomain,
                                    call.expectedAud)
         t == TokenClaims(call.jwt)
     IN IF payload.ok
        THEN /\ Allow([email |-> payload.email, name |-> payload.name], "nextJWT")
             /\ verifyOk' = TRUE
        ELSE /\ Deny(DenyInvalidJWT(opts.type,
                                    IF t.expired THEN "token expired"
                                    ELSE "token rejected"))
             /\ UNCHANGED verifyOk
  /\ UNCHANGED <<env, opts, req, verifyCalls, sandboxOps, extracted,
                 otherVars>>

\* await verifyAccessJWT(...) settles: payload -> c.set + next(); throw -> 401
VerifyDone ==
  /\ pc = "verifying"
  /\ LET call == verifyCalls[Len(verifyCalls)]
         payload == verifyAccessJWT(call.jwt, call.teamDomain, call.expectedAud)
     IN IF payload.ok
        THEN /\ Allow([email |-> payload.email, name |-> payload.name], "nextJWT")
             /\ verifyOk' = TRUE
        ELSE /\ Deny(DenyInvalidJWT(opts.type, payload.message))
             /\ UNCHANGED verifyOk
  /\ UNCHANGED <<env, opts, req, verifyCalls, sandboxOps, extracted,
                 otherVars>>

InNext == pc \in {"nextDev", "nextBootstrap", "nextJWT"}

\* a route handler of adminApi performs one sandbox operation
HandlerStep ==
  /\ InNext
  /\ Cardinality(sandboxOps) < MaxHandlerSteps
  /\ \E op \in {"startProcess", "exec", "writeFile"} \ sandboxOps :
       sandboxOps' = sandboxOps \cup {op}
  /\ UNCHANGED <<env, opts, req, pc, accessUser, response, nextCalls,
                 verifyCalls, verifyOk, extracted,
                 otherVars>>

\* next() resolves: the middleware returns without a response of its own
HandlerReturn ==
  /\ InNext
  /\ pc' = "done"
  /\ UNCHANGED <<env, opts, req, accessUser, response, nextCalls, verifyCalls,
                 verifyOk, sandboxOps, extracted,
                 otherVars>>

\* next() rejects: outside the try block the rejection leaves the middleware,
\* inside it (line 1355) the catch block answers 401
HandlerThrow ==
  /\ InNext
  /\ \E message \in SandboxErrors :
       IF pc = "nextJWT"
       THEN response' = DenyInvalidJWT(opts.type, message) /\ pc' = "done"
       ELSE response' = response /\ pc' = "threw"
  /\ UNCHANGED <<env, opts, req, accessUser, nextCalls, verifyCalls, verifyOk,
                 sandboxOps, extracted,
                 otherVars>>

Next ==
  \/ Gate
  \/ VerifyDone
  \/ HandlerStep
  \/ HandlerReturn
  \/ HandlerThrow

Spec == Init /\ [][Next]_vars

-----------------------------------------------------------------------------
(* SpecExtract: extractJWT applied to every bounded pair of headers *)

CookieAlphabet == {"N", "=", ";", " ", "a"}

\* all lexeme strings of length at most n
RECURSIVE StringsUpTo(_)
StringsUpTo(n) ==
  IF n = 0 THEN {<<>>}
  ELSE LET shorter == StringsUpTo(n - 1) IN
       shorter \cup {Append(t, ch) : t \in shorter, ch \in CookieAlphabet}

\* a Headers object stores a value without leading or trailing whitespace
Normalized(s) == s = <<>> \/ (Head(s) # " " /\ s[Len(s)] # " ")

InitExtract ==
  /\ env = [DEV_MODE |-> Undef, E2E_TEST_MODE |-> Undef,
            CF_ACCESS_TEAM_DOMAIN |-> TeamDomain, CF_ACCESS_AUD |-> Audience,
            GATEWAY_TOKEN |-> Undef, MOLTBOT_GATEWAY_TOKEN |-> Undef]
  /\ opts = [type |-> "json", redirectOnMissing |-> FALSE]
  /\ req \in [queryToken : {Null}, gatewayTokenHeader : {Undef},
              jwtHeader : {UndefSeq, <<>>, <<"g">>},
              cookie : {NullSeq} \cup {t \in StringsUpTo(MaxCookieLen) :
                                        Normalized(t)}]
  /\ pc = "start"
  /\ accessUser = {}
  /\ response = NoResponse
  /\ nextCalls = 0
  /\ verifyCalls = <<>>
  /\ verifyOk = FALSE
  /\ sandboxOps = {}
  /\ extracted = <<>>
  /\ OtherIdle

\* const jwt = extractJWT(c)
ExtractStep ==
  /\ pc = "start"
  /\ extracted' = <<extractJWT(req.jwtHeader, req.cookie)>>
  /\ pc' = "extracted"
  /\ UNCHANGED <<env, opts, req, accessUser, response, nextCalls, verifyCalls,
                 verifyOk, sandboxOps,
                 otherVars>>

NextExtract == ExtractStep

SpecExtract == InitExtract /\ [][NextExtract]_vars

-----------------------------------------------------------------------------
(* Properties of the access gate (Spec) *)

\* the dev-mode or the E2E-test-mode flag is enabled
DevOrE2E == env.DEV_MODE = "true" \/ env.E2E_TEST_MODE = "true"

\* the signed-token issuer is configured: team domain and audience both set
IssuerConfigured ==
  Truthy(env.CF_ACCESS_TEAM_DOMAIN) /\ Truthy(env.CF_ACCESS_AUD)

\* the configured shared secret (undefined or empty: none)
ConfiguredSecret == getGatewayToken(env)

\* the gate has decided: the middleware is past its entry
Decided == pc # "start"

\* the gate allowed the request: identity set, next() invoked once
Allowed == accessUser # {} /\ nextCalls = 1

\* the gate denied the request: a denial returned, no identity, no next()
Denied == response # NoResponse /\ accessUser = {} /\ nextCalls = 0

\* C1: a business-handler step (a sandbox operation) happens only for a
\* request the gate allowed, after an identity was set; a request the gate
\* denied never has a handler step.
C1_HandlerOnlyAfterAllow ==
  /\ (InNext \/ sandboxOps # {}) => (accessUser # {} /\ nextCalls = 1)
  /\ (Decided /\ nextCalls = 0 /\ pc # "verifying") =>
       (Denied /\ pc = "done" /\ sandboxOps = {})

C1_Witness ==
  /\ pc = "done"
  /\ sandboxOps = {"startProcess", "writeFile"}
  /\ accessUser = {BootstrapUser}

C3_NotConfiguredIs500 ==
  (/\ ~DevOrE2E
   /\ ~IssuerConfigured
   /\ ~Truthy(env.GATEWAY_TOKEN)
   /\ ~Truthy(env.MOLTBOT_GATEWAY_TOKEN)
   /\ Decided) =>
    /\ pc = "done"
    /\ Denied
    /\ response.status = 500
    /\ response.shape = opts.type
    /\ response.error \in {"Cloudflare Access not configured",
                           "Admin UI Not Configured"}

C3_Witness ==
  /\ ~DevOrE2E
  /\ env.CF_ACCESS_TEAM_DOMAIN = TeamDomain
  /\ env.CF_ACCESS_AUD = Undef
  /\ env.GATEWAY_TOKEN = ""
  /\ env.MOLTBOT_GATEWAY_TOKEN = Undef
  /\ req.queryToken = "my-secret-token"
  /\ req.jwtHeader = <<"g">>
  /\ opts.type = "html"
  /\ response.status = 500

\* a bootstrap configuration: dev/E2E off, issuer unconfigured, secret set
BootstrapConfig == ~DevOrE2E /\ ~IssuerConfigured /\ Truthy(ConfiguredSecret)

\* the token the request supplies
SuppliedToken == extractGatewayToken(req.queryToken, req.gatewayTokenHeader)

\* C4: in a bootstrap configuration a request whose supplied token equals
\* the configured secret is allowed with the bootstrap identity; any other,
\* empty or absent token is denied with 401 and a hint.
C4_BootstrapToken ==
  (BootstrapConfig /\ Decided) =>
    IF SuppliedToken = ConfiguredSecret
    THEN /\ accessUser = {[email |-> "bootstrap",
                           name |-> "Setup (Gateway Token)"]}
         /\ nextCalls = 1
         /\ response = NoResponse
    ELSE /\ pc = "done"
         /\ Denied
         /\ response.status = 401
         /\ response.shape = opts.type
         /\ response.hint # ""
         /\ sandboxOps = {}

C4_Witness ==
  /\ BootstrapConfig
  /\ env.GATEWAY_TOKEN = Undef
  /\ req.queryToken = ""
  /\ req.gatewayTokenHeader = Undef
  /\ response.status = 401
  /\ response.hint # ""

\* both the query parameter and the header are present, with different values
BothTokensDiffer ==
  /\ req.queryToken # Null
  /\ req.gatewayTokenHeader # Undef
  /\ req.queryToken # req.gatewayTokenHeader

\* C5 as claimed: with both tokens present and different, the request is
\* allowed exactly when the query value equals the secret, an empty query
\* value included.
C5_QueryAloneDecides ==
  (BootstrapConfig /\ BothTokensDiffer /\ Decided) =>
    (nextCalls = 1 <=> req.queryToken = ConfiguredSecret)

\* C5 amended: with both tokens present and different, a non-empty query
\* value alone decides (allowed exactly when it equals the secret); an
\* empty query value counts as absent and the header value decides.
C5_QueryPrecedence ==
  (BootstrapConfig /\ BothTokensDiffer /\ Decided) =>
    IF req.queryToken # ""
    THEN nextCalls = 1 <=> req.queryToken = ConfiguredSecret
    ELSE nextCalls = 1 <=> req.gatewayTokenHeader = ConfiguredSecret

C5_Witness ==
  /\ BootstrapConfig
  /\ req.queryToken = "wrong-token"
  /\ req.gatewayTokenHeader = ConfiguredSecret
  /\ response.status = 401
  /\ nextCalls = 0

\* the request was allowed with the bootstrap identity
AllowedAsBootstrap == nextCalls > 0 /\ accessUser = {BootstrapUser}

C7_ExactlyOneOutcome ==
  pc \in {"done", "threw"} =>
    \/ (Allowed /\ response = NoResponse)
    \/ Denied

\* the signed token the request carries, if any
CarriedJWT == extractJWT(req.jwtHeader, req.cookie)

IssuerMode == ~DevOrE2E /\ IssuerConfigured

\* the carried token is genuine: signed by the configured issuer for the
\* configured audience and not expired
CarriedJWTVerifies ==
  /\ TokenClaims(CarriedJWT).iss = env.CF_ACCESS_TEAM_DOMAIN
  /\ TokenClaims(CarriedJWT).aud = env.CF_ACCESS_AUD
  /\ ~TokenClaims(CarriedJWT).expired

\* C8: in issuer mode a present token is handed to the verifier with the
\* configured issuer and audience; on success the request is allowed with
\* the identity from the token's claims, on failure it is denied with 401
\* and the handler does not run; nothing is allowed without a successful
\* verification.
C8_VerifiedTokensOnly ==
  (IssuerMode /\ TruthySeq(CarriedJWT) /\ Decided) =>
    /\ verifyCalls = <<[jwt |-> CarriedJWT,
                        teamDomain |-> env.CF_ACCESS_TEAM_DOMAIN,
                        expectedAud |-> env.CF_ACCESS_AUD]>>
    /\ nextCalls > 0 => verifyOk
    /\ pc # "verifying" =>
         IF CarriedJWTVerifies
         THEN /\ accessUser = {[email |-> TokenClaims(CarriedJWT).email,
                                name |-> TokenClaims(CarriedJWT).name]}
              /\ nextCalls = 1
         ELSE /\ pc = "done"
              /\ Denied
              /\ response.status = 401
              /\ response.error = "Unauthorized"
              /\ sandboxOps = {}

C8_Witness ==
  /\ IssuerMode
  /\ req.jwtHeader = UndefSeq
  /\ req.cookie = <<"N", "=", "h">>
  /\ pc = "nextJWT"
  /\ accessUser = {[email |-> "bob@example.com", name |-> "Bob"]}
  /\ sandboxOps # {}

\* the request carries no signed token: no CF-Access-JWT-Assertion header
\* and no CF_Authorization cookie
NoSignedToken ==
  /\ req.jwtHeader = UndefSeq
  /\ (req.cookie = NullSeq \/ IndexOf(req.cookie, "N", 1) = 0)

\* the caller asked for redirect-style denial: redirectOnMissing, which the
\* options define for the 'html' type only
RedirectRequested == opts.type = "html" /\ opts.redirectOnMissing

\* C9: in issuer mode a request without a signed token is denied without
\* reaching the verifier or the handler: 302 to the issuer's login when
\* redirect-style denial was requested, else 401 in the caller's shape.
C9_MissingTokenDenied ==
  (IssuerMode /\ NoSignedToken /\ Decided) =>
    /\ pc = "done"
    /\ Denied
    /\ verifyCalls = <<>>
    /\ sandboxOps = {}
    /\ IF RedirectRequested
       THEN /\ response.shape = "redirect"
            /\ response.status = 302
            /\ response.location = <<"https://", env.CF_ACCESS_TEAM_DOMAIN>>
       ELSE /\ response.shape = opts.type
            /\ response.status = 401
            /\ response.error = "Unauthorized"

C9_Witness ==
  /\ IssuerMode
  /\ NoSignedToken
  /\ req.cookie = <<"a", "=", "b">>
  /\ response.shape = "redirect"
  /\ response.status = 302

\* the one denial a failed verification gets, whatever the token
GenericDenial ==
  IF opts.type = "json"
  THEN Json(401, "Unauthorized", "", VerificationError)
  ELSE Html(401, "Unauthorized",
            "Your Cloudflare Access session is invalid or expired.")

-----------------------------------------------------------------------------
(* Properties of token extraction (SpecExtract) *)

\* the text after the first '=' of the first cookie named CF_Authorization,
\* UndefSeq if there is no such cookie
RECURSIVE NamedCookieValue(_, _)
NamedCookieValue(cookies, i) ==
  IF i > Len(cookies) THEN UndefSeq
  ELSE LET pair == Trim(cookies[i])
           eq == IndexOf(pair, "=", 1)
       IN IF eq = 2 /\ pair[1] = "N"
          THEN SubSeq(pair, eq + 1, Len(pair))
          ELSE NamedCookieValue(cookies, i + 1)

\* the token the claim describes: the header value when the header is
\* present (non-empty), else the cookie's value, else none
ClaimedJWT ==
  IF req.jwtHeader # UndefSeq /\ req.jwtHeader # <<>> THEN req.jwtHeader
  ELSE IF req.cookie = NullSeq THEN NullSeq
  ELSE LET v == NamedCookieValue(Split(req.cookie, ";"), 1) IN
       IF v = UndefSeq \/ v = <<>> THEN NullSeq ELSE v

\* C10: the extracted token is the CF-Access-JWT-Assertion header value when
\* present, otherwise the value of the CF_Authorization cookie (found among
\* any other cookies), otherwise none.
C10_HeaderThenCookieValue ==
  pc = "extracted" => extracted = <<ClaimedJWT>>

-----------------------------------------------------------------------------
(* SpecPairing: one request to POST /devices/approve-all or to
   POST /devices/:requestId/approve, behind the gate, and the CLI processes
   it starts in the sandbox *)

\* the state of the gate other than its position and its response
gateVars ==
  <<env, opts, req, accessUser, nextCalls, verifyCalls, verifyOk, sandboxOps,
    extracted>>

storageVars == <<sbx, storage, toolRuns, outcome, clock, bucket, update>>

MaxPending == 2

DeviceIds == {"d1", "d2", "d3"}

\* the registry's pending requests: n distinct request ids
PendingLists(n) ==
  {l \in [1..n -> DeviceIds] : \A j, k \in 1..n : j # k => l[j] # l[k]}

\* c.req.param('requestId')
RequestIdParams == {"", "d1"}

CLI_TIMEOUT_MS == 20000

\* what the approve command has printed: nothing yet, or its success line
ApproveOutputs == {<<>>, <<"Approved", "device">>}

\* stdout of `openclaw devices list --json`
ListOutputs == {"json", "jsonNoPending", "noJson", "badJson"}

\* String.prototype.toLowerCase on a word
ToLowerCase(w) ==
  CASE w = "Approved" -> "approved"
    [] w = "APPROVED" -> "approved"
    [] OTHER -> w

\* stdout.toLowerCase().includes('approved')
IncludesApproved(stdout) ==
  \E k \in 1..Len(stdout) : ToLowerCase(stdout[k]) = "approved"

\* mutant: the marker and the exit status are both required
ApprovalSuccess_both(stdout, exitCode) ==
  (stdout # UndefSeq /\ IncludesApproved(stdout)) /\ exitCode = 0

\* stdout?.toLowerCase().includes('approved') || proc.exitCode === 0
ApprovalSuccess(stdout, exitCode) ==
  (stdout # UndefSeq /\ IncludesApproved(stdout)) \/ exitCode = 0

\* ` --token ${token}` or ''
TokenArg(e) ==
  IF Truthy(getGatewayToken(e)) THEN <<"--token", getGatewayToken(e)>>
  ELSE <<>>

\* sandbox.startProcess(`openclaw devices <cmd> ...`)
StartedProcess(cmd, requestId, tokenArg) ==
  [cmd |-> cmd, requestId |-> requestId, tokenArg |-> tokenArg,
   status |-> "running", exitCode |-> NoExitCode, stdout |-> <<>>,
   timedOut |-> FALSE]

\* waitForProcess(proc, timeoutMs): returns when the process is no longer
\* running or when the timeout has elapsed, whichever comes first; whether a
\* process that ran into the timeout is terminated is up to the sandbox
waitForProcess(proc, timeoutMs) ==
  IF proc.status = "running"
  THEN {[proc EXCEPT !.timedOut = TRUE],
        [proc EXCEPT !.timedOut = TRUE, !.status = "killed"]}
  ELSE {proc}

\* the device list parsed from stdout: JSON.parse of the first {...} match
ParsePending(output, registryPending) ==
  CASE output = "json" -> [ok |-> TRUE, pending |-> registryPending]
    [] output = "jsonNoPending" -> [ok |-> TRUE, pending |-> <<>>]
    [] output = "noJson" -> [ok |-> TRUE, pending |-> <<>>]
    [] OTHER -> [ok |-> FALSE, pending |-> <<>>]

\* c.json({error}, status)
ErrorResponse(status, message) ==
  [shape |-> "json", status |-> status, error |-> message]

ParseFailure(raw) ==
  [shape |-> "json", status |-> 500, error |-> "Failed to parse device list",
   raw |-> raw]

\* mutant: GET /devices answers output it cannot parse with the error shape
DevicesAnswer_failsOnParseError(output, registryPending, stderr) ==
  CASE output = "json" ->
         [shape |-> "json", status |-> 200, pending |-> registryPending,
          paired |-> <<>>]
    [] output = "jsonNoPending" ->
         [shape |-> "json", status |-> 200, pending |-> <<>>, paired |-> <<>>]
    [] output = "noJson" ->
         [shape |-> "json", status |-> 200, pending |-> <<>>, paired |-> <<>>,
          raw |-> output, stderr |-> stderr]
    [] OTHER -> ErrorResponse(500, "Failed to parse CLI output")

\* the answer of GET /devices: the parsed object as the registry printed it,
\* or empty lists with the raw output when there is no JSON object or
\* JSON.parse throws
DevicesAnswer(output, registryPending, stderr) ==
  CASE output = "json" ->
         [shape |-> "json", status |-> 200, pending |-> registryPending,
          paired |-> <<>>]
    [] output = "jsonNoPending" ->
         [shape |-> "json", status |-> 200, pending |-> <<>>, paired |-> <<>>]
    [] output = "noJson" ->
         [shape |-> "json", status |-> 200, pending |-> <<>>, paired |-> <<>>,
          raw |-> output, stderr |-> stderr]
    [] OTHER ->
         [shape |-> "json", status |-> 200, pending |-> <<>>, paired |-> <<>>,
          raw |-> output, stderr |-> stderr,
          parseError |-> "Failed to parse CLI output"]

NothingPending ==
  [shape |-> "json", status |-> 200, approved |-> <<>>,
   message |-> "No pending devices to approve"]

RequestIdsOf(results) == [k \in 1..Len(results) |-> results[k].requestId]

\* {approved, failed, message: `Approved ${approvedCount} of ${n} device(s)`}
ApproveAllResponse(results, pending) ==
  [shape |-> "json", status |-> 200,
   approved |-> RequestIdsOf(SelectSeq(results, LAMBDA r : r.success)),
   failed |-> SelectSeq(results, LAMBDA r : ~r.success),
   message |-> <<"Approved",
                 Len(SelectSeq(results, LAMBDA r : r.success)), "of",
                 Len(pending), "device(s)">>]

ApproveResponse(success, requestId, stdout) ==
  [shape |-> "json", status |-> 200, success |-> success,
   requestId |-> requestId,
   message |-> IF success THEN "Device approved"
               ELSE "Approval may have failed",
   stdout |-> stdout]

\* the environment of the admin routes in this specification
PairingEnvs ==
  {[DEV_MODE |-> "true", E2E_TEST_MODE |-> Undef,
    CF_ACCESS_TEAM_DOMAIN |-> Undef, CF_ACCESS_AUD |-> Undef,
    GATEWAY_TOKEN |-> t, MOLTBOT_GATEWAY_TOKEN |-> Undef] :
     t \in {"my-secret-token"}}

\* listOutput is the stdout the handler read from the list command ("none"
\* until it has read it)
PairingCalls ==
  {[op |-> o, requestId |-> "", pending |-> <<>>, i |-> 0,
    results |-> <<>>, observed |-> <<>>, attempts |-> <<>>, proc |-> 0,
    listOutput |-> "none"] : o \in {"approveAll", "list"}}
  \cup
  {[op |-> "approve", requestId |-> id, pending |-> <<id>>, i |-> 1,
    results |-> <<>>, observed |-> <<>>, attempts |-> <<>>, proc |-> 0,
    listOutput |-> "none"] :
     id \in RequestIdParams}

InitPairing ==
  /\ env \in PairingEnvs
  /\ opts = [type |-> "json", redirectOnMissing |-> FALSE]
  /\ req = [queryToken |-> Null, gatewayTokenHeader |-> Undef,
            jwtHeader |-> UndefSeq, cookie |-> NullSeq]
  /\ pc = "handler"
  /\ accessUser = {DevUser}
  /\ response = NoResponse
  /\ nextCalls = 1
  /\ verifyCalls = <<>>
  /\ verifyOk = FALSE
  /\ sandboxOps = {}
  /\ extracted = <<>>
  /\ sbx = EmptySandbox
  /\ storage = NoCall
  /\ toolRuns = {}
  /\ outcome = NoOutcome
  /\ clock = 0
  /\ devices \in [pending : UNION {PendingLists(n) : n \in 0..MaxPending},
                  procs : {<<>>}]
  /\ pairing \in PairingCalls
  /\ bucket = EmptyBucket
  /\ update = NoUpdate

\* the outer catch block: c.json({error: errorMessage}, 500)
Fail500(message) ==
  /\ response' = ErrorResponse(500, message)
  /\ pc' = "done"

\* handler entry up to `await ensureMoltbotGateway(sandbox, c.env)`
EnsureGateway ==
  /\ pc = "handler"
  /\ IF pairing.op = "approve" /\ ~Truthy(pairing.requestId)
     THEN /\ response' = ErrorResponse(400, "requestId is required")
          /\ pc' = "done"
     ELSE \/ /\ pc' = IF pairing.op = "approve" THEN "approveStart"
                      ELSE "listStart"
             /\ UNCHANGED response
          \/ \E message \in SandboxErrors : Fail500(message)
  /\ UNCHANGED <<gateVars, storageVars, devices, pairing>>

\* sandbox.startProcess(`openclaw devices list --json ...`)
ListStart ==
  /\ pc = "listStart"
  /\ \/ /\ devices' = [devices EXCEPT !.procs =
                         Append(@, StartedProcess("list", "", TokenArg(env)))]
        /\ pairing' = [pairing EXCEPT !.proc = Len(devices.procs) + 1]
        /\ pc' = "listWait"
        /\ UNCHANGED response
     \/ /\ \E message \in SandboxErrors : Fail500(message)
        /\ UNCHANGED <<devices, pairing>>
  /\ UNCHANGED <<gateVars, storageVars>>

\* await waitForProcess(listProc, CLI_TIMEOUT_MS)
ListWait ==
  /\ pc = "listWait"
  /\ \E proc \in waitForProcess(devices.procs[pairing.proc], CLI_TIMEOUT_MS) :
       devices' = [devices EXCEPT !.procs[pairing.proc] = proc]
  /\ pc' = "listLogs"
  /\ UNCHANGED <<gateVars, storageVars, pairing, response>>

\* listProc.getLogs(), the parse of the list, and the empty-list answer
ListLogs ==
  /\ pc = "listLogs"
  /\ \/ \E output \in ListOutputs :
          LET parsed == ParsePending(output, devices.pending)
              read == [pairing EXCEPT !.listOutput = output]
          IN IF pairing.op = "list"
             THEN /\ \E stderr \in {"", "gateway unreachable"} :
                       response' = DevicesAnswer(output, devices.pending,
                                                 stderr)
                  /\ pc' = "done"
                  /\ pairing' = read
             ELSE IF ~parsed.ok
             THEN /\ response' = ParseFailure(output)
                  /\ pc' = "done"
                  /\ pairing' = read
             ELSE IF Len(parsed.pending) = 0
             THEN /\ response' = NothingPending
                  /\ pc' = "done"
                  /\ pairing' = read
             ELSE /\ pairing' = [read EXCEPT !.pending = parsed.pending,
                                             !.i = 1]
                  /\ pc' = "approveStart"
                  /\ UNCHANGED response
     \/ /\ \E message \in SandboxErrors : Fail500(message)
        /\ UNCHANGED pairing
  /\ UNCHANGED <<gateVars, storageVars, devices>>

\* mutant: a device whose approval threw is left out of the results
PushResult_dropsErrors(p, r) ==
  IF "error" \in DOMAIN r THEN [p EXCEPT !.i = @ + 1]
  ELSE [p EXCEPT !.results = Append(@, r), !.i = @ + 1]

\* results.push(r) and the loop's step to the next device
PushResult(p, r) == [p EXCEPT !.results = Append(@, r), !.i = @ + 1]

\* the end of one loop iteration of approve-all with result r and what was
\* seen of the process; after the last one the handler answers
EndIteration(p0, r, seen) ==
  LET p == PushResult([p0 EXCEPT !.observed = Append(@, seen)], r)
  IN /\ pairing' = p
     /\ IF p.i > Len(p.pending)
        THEN /\ response' = ApproveAllResponse(p.results, p.pending)
             /\ pc' = "done"
        ELSE /\ pc' = "approveStart"
             /\ UNCHANGED response

\* the inner catch block of approve-all, the outer one of the single approve
ApproveThrows(p0, message) ==
  IF p0.op = "approveAll"
  THEN EndIteration(p0, [requestId |-> p0.pending[p0.i], success |-> FALSE,
                         error |-> message],
                    [threw |-> TRUE])
  ELSE Fail500(message) /\ pairing' = p0

\* sandbox.startProcess(`openclaw devices approve ${requestId} ...`)
ApproveStart ==
  /\ pc = "approveStart"
  /\ LET id == pairing.pending[pairing.i]
         attempted == [pairing EXCEPT !.attempts = Append(@, id)]
     IN \/ /\ devices' = [devices EXCEPT !.procs =
                            Append(@, StartedProcess("approve", id,
                                                     TokenArg(env)))]
           /\ pairing' = [attempted EXCEPT !.proc = Len(devices.procs) + 1]
           /\ pc' = "approveWait"
           /\ UNCHANGED response
        \/ /\ \E message \in SandboxErrors : ApproveThrows(attempted, message)
           /\ UNCHANGED devices
  /\ UNCHANGED <<gateVars, storageVars>>

\* mutant: the wait is not awaited, the loop goes on at once
ApproveWait_notAwaited ==
  /\ pc = "approveWait"
  /\ pc' = "approveLogs"
  /\ UNCHANGED <<gateVars, storageVars, devices, pairing, response>>

\* await waitForProcess(approveProc, CLI_TIMEOUT_MS)
ApproveWait ==
  /\ pc = "approveWait"
  /\ \E proc \in waitForProcess(devices.procs[pairing.proc], CLI_TIMEOUT_MS) :
       devices' = [devices EXCEPT !.procs[pairing.proc] = proc]
  /\ pc' = "approveLogs"
  /\ UNCHANGED <<gateVars, storageVars, pairing, response>>

\* approveProc.getLogs(), the success test and the result (or the answer of
\* the single approve)
ApproveLogs ==
  /\ pc = "approveLogs"
  /\ LET proc == devices.procs[pairing.proc]
         success == ApprovalSuccess(proc.stdout, proc.exitCode)
         seen == [threw |-> FALSE, stdout |-> proc.stdout,
                  exitCode |-> proc.exitCode, timedOut |-> proc.timedOut]
     IN \/ IF pairing.op = "approveAll"
           THEN EndIteration(pairing, [requestId |-> proc.requestId,
                                       success |-> success], seen)
           ELSE /\ response' = ApproveResponse(success, pairing.requestId,
                                               IF TruthySeq(proc.stdout)
                                               THEN proc.stdout ELSE <<>>)
                /\ pairing' = [pairing EXCEPT !.observed = Append(@, seen)]
                /\ pc' = "done"
        \/ \E message \in SandboxErrors : ApproveThrows(pairing, message)
  /\ UNCHANGED <<gateVars, storageVars, devices>>

\* a CLI process prints to stdout
ProcPrints ==
  /\ pc # "done"
  /\ \E k \in 1..Len(devices.procs), text \in ApproveOutputs \ {<<>>} :
       /\ devices.procs[k].cmd = "approve"
       /\ devices.procs[k].status = "running"
       /\ devices.procs[k].stdout = <<>>
       /\ devices' = [devices EXCEPT !.procs[k].stdout = text]
  /\ UNCHANGED <<gateVars, storageVars, pairing, pc, response>>

\* a CLI process exits
ProcExit ==
  /\ pc # "done"
  /\ \E k \in 1..Len(devices.procs), code \in {0, 1} :
       /\ devices.procs[k].status = "running"
       /\ devices' = [devices EXCEPT !.procs[k].status = "exited",
                                     !.procs[k].exitCode = code]
  /\ UNCHANGED <<gateVars, storageVars, pairing, pc, response>>

NextPairing ==
  \/ EnsureGateway
  \/ ListStart
  \/ ListWait
  \/ ListLogs
  \/ ApproveStart
  \/ ApproveWait
  \/ ApproveLogs
  \/ ProcPrints
  \/ ProcExit

SpecPairing == InitPairing /\ [][NextPairing]_vars

-----------------------------------------------------------------------------
(* Properties of device pairing (SpecPairing) *)

\* the approve commands of the sandbox that are running
RunningApproves ==
  {k \in 1..Len(devices.procs) :
     devices.procs[k].cmd = "approve" /\ devices.procs[k].status = "running"}

\* approve-all parsed a non-empty list and has answered
ApproveAllAnswered ==
  pairing.op = "approveAll" /\ pc = "done" /\ Len(pairing.pending) > 0

\* how often id occurs in the list ids
Occurrences(ids, id) == Cardinality({k \in 1..Len(ids) : ids[k] = id})

\* C12: approve-all over N pending requests attempts each request once, in
\* list order; when it answers, every request id is in exactly one of
\* approved and failed, the two lists have N entries together, and the
\* answer is the 200 response whatever failed or threw on the way.
C12_ApproveAllPartitions ==
  /\ pairing.op = "approveAll" =>
       /\ Len(pairing.attempts) <= Len(pairing.pending)
       /\ \A k \in 1..Len(pairing.attempts) :
            pairing.attempts[k] = pairing.pending[k]
  /\ ApproveAllAnswered =>
       /\ response.status = 200
       /\ pairing.attempts = pairing.pending
       /\ Len(response.approved) + Len(response.failed) = Len(pairing.pending)
       /\ \A k \in 1..Len(pairing.pending) :
            Occurrences(response.approved, pairing.pending[k])
              + Occurrences(RequestIdsOf(response.failed), pairing.pending[k])
              = 1

C12_Witness ==
  /\ ApproveAllAnswered
  /\ Len(pairing.pending) = 2
  /\ response.approved = <<>>
  /\ Len(response.failed) = 2
  /\ "error" \in DOMAIN response.failed[1]
  /\ "error" \notin DOMAIN response.failed[2]

\* C13 as claimed: at no point of an approve-all are two approve commands
\* running against the registry at the same time.
C13_NeverTwoApprovesRunning == Cardinality(RunningApproves) <= 1

\* position of a request id in the pending list
PositionIn(ids, id) == CHOOSE k \in 1..Len(ids) : ids[k] = id

\* C13: approve-all fetches the list once and starts the approve commands in
\* list order, each one only after the wait for the previous one returned;
\* a command still running is the one being awaited or one whose wait ran
\* into its timeout.
C13_SequentialUpToTimeout ==
  pairing.op = "approveAll" =>
    /\ Cardinality({k \in 1..Len(devices.procs) :
                      devices.procs[k].cmd = "list"}) <= 1
    /\ \A j, k \in 1..Len(devices.procs) :
         (j < k /\ devices.procs[j].cmd = "approve") =>
           /\ devices.procs[k].cmd = "approve"
           /\ PositionIn(pairing.pending, devices.procs[j].requestId)
                < PositionIn(pairing.pending, devices.procs[k].requestId)
    /\ \A k \in RunningApproves :
         \/ pc = "approveWait" /\ pairing.proc = k
         \/ devices.procs[k].timedOut

C13_Witness ==
  /\ pairing.op = "approveAll"
  /\ Cardinality(RunningApproves) = 2
  /\ pc = "approveWait"

\* C14: an approve is reported successful exactly when the output seen
\* contains the success marker or the exit status seen is zero; a call that
\* threw, or that timed out with neither, is reported not successful.
C14_SuccessIffMarkerOrZero ==
  /\ \A k \in 1..Len(pairing.results) :
       pairing.results[k].success =
         (/\ ~pairing.observed[k].threw
          /\ \/ IncludesApproved(pairing.observed[k].stdout)
             \/ pairing.observed[k].exitCode = 0)
  /\ (pairing.op = "approve" /\ pc = "done" /\ response.status = 200) =>
       response.success =
         (\/ IncludesApproved(pairing.observed[1].stdout)
          \/ pairing.observed[1].exitCode = 0)

C14_Witness ==
  /\ Len(pairing.results) = 2
  /\ ~pairing.observed[1].threw
  /\ IncludesApproved(pairing.observed[1].stdout)
  /\ pairing.observed[1].exitCode = 1
  /\ pairing.results[1].success
  /\ ~pairing.observed[2].threw
  /\ pairing.observed[2].timedOut
  /\ pairing.observed[2].exitCode = NoExitCode
  /\ ~pairing.results[2].success

\* GET /devices has read output of the list command that holds no JSON object
\* or one that JSON.parse rejects
ListedUnparsable ==
  /\ pairing.op = "list"
  /\ pc = "done"
  /\ pairing.listOutput \in {"noJson", "badJson"}

\* C25: when the list command's output holds no JSON object or an unparsable
\* one, GET /devices answers 200 with empty pending and paired lists, the raw
\* stdout and the stderr; it answers 500 only when a call threw, that is,
\* before any output was read
C25_ListNeverFailsOnMalformedOutput ==
  /\ ListedUnparsable =>
       /\ response.status = 200
       /\ response.pending = <<>>
       /\ response.paired = <<>>
       /\ response.raw = pairing.listOutput
       /\ "stderr" \in DOMAIN response
  /\ (pairing.op = "list" /\ pc = "done" /\ response.status = 500) =>
       /\ pairing.listOutput = "none"
       /\ response.error \in SandboxErrors

C25_Witness ==
  /\ ListedUnparsable
  /\ pairing.listOutput = "badJson"
  /\ "parseError" \in DOMAIN response
  /\ response.stderr = "gateway unreachable"

\* C27 as claimed: approve-all answers output without a parsable device list
\* (no JSON object, or invalid JSON) with the parse failure carrying the raw
\* output, and says that nothing was pending only after it parsed a list
\* whose pending set is empty
C27_UnparsableListSurfaced ==
  (pairing.op = "approveAll" /\ pc = "done" /\ pairing.listOutput # "none") =>
    /\ pairing.listOutput \in {"noJson", "badJson"} =>
         response = ParseFailure(pairing.listOutput)
    /\ response = NothingPending =>
         /\ pairing.listOutput \in {"json", "jsonNoPending"}
         /\ pairing.attempts = <<>>

-----------------------------------------------------------------------------
(* SpecSync: requests to POST /storage/sync (syncToR2) and GET /storage/test,
   one after the other, with the worker's secrets changing between them *)

nonStorageVars ==
  <<opts, req, pc, accessUser, response, nextCalls, verifyCalls, verifyOk,
    sandboxOps, extracted, devices, pairing, update>>

MaxCalls == 2

R2Env(accessKey, secretKey, accountId) ==
  [R2_ACCESS_KEY_ID |-> accessKey, R2_SECRET_ACCESS_KEY |-> secretKey,
   CF_ACCOUNT_ID |-> accountId, R2_BUCKET_NAME |-> Undef]

\* configured; configured with an access key of nine characters; rotated
\* (padded, with a line break); one secret undefined, blank, empty
SecretEnvs ==
  {R2Env(<<"a1">>, <<"s1">>, <<"acct">>),
   R2Env(<<"A", "K", "I", "D", "5", "6", "7", "8", "9">>, <<"s", "k">>,
         <<"a", "c", "c", "t">>),
   R2Env(<<"a2", " ">>, <<"s", "\n", "2">>, <<"acct">>),
   R2Env(UndefSeq, <<"s1">>, <<"acct">>),
   R2Env(<<"a1">>, <<" ">>, <<"acct">>),
   R2Env(<<"a1">>, <<"s1">>, <<>>)}

\* which of the two config layouts, the workspace and its skills
\* subdirectory exist in the container
Layouts ==
  {l \in [openclaw : BOOLEAN, clawdbot : BOOLEAN, workspace : BOOLEAN,
          skills : BOOLEAN] : l.skills => l.workspace}

\* env.X?.trim()
OptTrim(s) == IF s = UndefSeq THEN UndefSeq ELSE Trim(s)

\* mutant: the secrets are tested without trimming
hasR2Config_untrimmed(e) ==
  /\ TruthySeq(e.R2_ACCESS_KEY_ID)
  /\ TruthySeq(e.R2_SECRET_ACCESS_KEY)
  /\ TruthySeq(e.CF_ACCOUNT_ID)

hasR2Config(e) ==
  /\ TruthySeq(OptTrim(e.R2_ACCESS_KEY_ID))
  /\ TruthySeq(OptTrim(e.R2_SECRET_ACCESS_KEY))
  /\ TruthySeq(OptTrim(e.CF_ACCOUNT_ID))

\* env.X?.trim() ?? ''
TrimOrEmpty(s) == IF OptTrim(s) = UndefSeq THEN <<>> ELSE OptTrim(s)

\* accessKey, secretKey, accountId of runRcloneWithFreshConfig
TrimmedSecrets(e) ==
  [accessKey |-> TrimOrEmpty(e.R2_ACCESS_KEY_ID),
   secretKey |-> TrimOrEmpty(e.R2_SECRET_ACCESS_KEY),
   accountId |-> TrimOrEmpty(e.CF_ACCOUNT_ID)]

\* s.replace(/\r?\n/g, '').trim()
Safe(s) == Trim(SelectSeq(s, LAMBDA ch : ch # "\n"))

buildRcloneConfigContent(accessKey, secretKey, accountId) ==
  [section |-> "[r2]", type |-> "s3", provider |-> "Cloudflare",
   access_key_id |-> Safe(accessKey),
   secret_access_key |-> Safe(secretKey),
   endpoint |-> <<"https://">> \o Safe(accountId)
                  \o <<".r2.cloudflarestorage.com">>,
   acl |-> "private", no_check_bucket |-> "true"]

\* env?.R2_BUCKET_NAME || 'clawworker-data'
getR2BucketName(e) ==
  IF Truthy(e.R2_BUCKET_NAME) THEN e.R2_BUCKET_NAME ELSE "clawworker-data"

\* stdout of `test -f .../openclaw.json && echo openclaw ||
\*            (test -f .../clawdbot.json && echo clawdbot || echo none)`
DetectOutput(s) ==
  IF s.openclaw THEN "openclaw"
  ELSE IF s.clawdbot THEN "clawdbot"
  ELSE "none"

\* mutant: the legacy directory is assumed when no layout is found
detectConfigDir_legacyDefault(stdout) ==
  CASE stdout = "openclaw" -> "/root/.openclaw"
    [] OTHER -> "/root/.clawdbot"

detectConfigDir(stdout) ==
  CASE stdout = "openclaw" -> "/root/.openclaw"
    [] stdout = "clawdbot" -> "/root/.clawdbot"
    [] OTHER -> Null

NotConfiguredError == <<"R2", "storage", "is", "not", "configured">>

NoConfigFoundError == <<"Sync", "aborted:", "no", "config", "file", "found">>

ConfigSyncFailedError == <<"Config", "sync", "failed">>

\* String.prototype.includes on texts of words
Includes(text, part) ==
  \E k \in 1..(Len(text) - Len(part) + 1) :
     SubSeq(text, k, k + Len(part) - 1) = part

\* String.prototype.slice(-n)
SliceLast(text, n) ==
  SubSeq(text, IF Len(text) > n THEN Len(text) - n + 1 ELSE 1, Len(text))

DETAILS_TAIL == 2000

\* exit status of `true`
TrueExitStatus == 0

\* exit status of `rclone ... 2>&1 || true`
ShellExit(toolExit) == IF toolExit = 0 THEN toolExit ELSE TrueExitStatus

\* what becomes of the rclone command: it transfers, it fails, the exec call
\* reports that the command did not complete, the exec call rejects
ToolOutcomes == {"transferred", "toolFailed", "execFailed", "throws"}

\* the result of sandbox.exec for the rclone command
ExecResult(o) ==
  CASE o = "transferred" ->
         [success |-> ShellExit(0) = 0, exitCode |-> ShellExit(0),
          stdout |-> <<"Transferred:", "3", "files">>, stderr |-> <<>>]
    [] o = "toolFailed" ->
         [success |-> ShellExit(1) = 0, exitCode |-> ShellExit(1),
          stdout |-> <<"Failed", "to", "sync:", "AccessDenied">>,
          stderr |-> <<>>]
    [] OTHER ->
         [success |-> FALSE, exitCode |-> NoExitCode, stdout |-> <<>>,
          stderr |-> <<"command", "timed", "out">>]

\* {stdout, stderr, success, exitCode} returned by runRcloneWithFreshConfig
RunResult(result) ==
  [stdout |-> IF TruthySeq(result.stdout) THEN result.stdout ELSE <<>>,
   stderr |-> IF TruthySeq(result.stderr) THEN result.stderr ELSE <<>>,
   success |-> result.success,
   exitCode |-> IF result.exitCode # NoExitCode THEN result.exitCode
                ELSE IF result.success THEN 0 ELSE 1]

RunNotConfigured ==
  [stdout |-> <<>>, stderr |-> <<"R2", "not", "configured">>,
   success |-> FALSE, exitCode |-> 1]

\* [stderr, stdout].filter(Boolean).join('\n---\n').slice(-2000)
ErrOut(result) ==
  SliceLast(IF TruthySeq(result.stderr) /\ TruthySeq(result.stdout)
            THEN result.stderr \o <<"\n---\n">> \o result.stdout
            ELSE result.stderr \o result.stdout,
            DETAILS_TAIL)

ConfigSyncFailed(result) ==
  [success |-> FALSE, error |-> ConfigSyncFailedError,
   details |-> IF TruthySeq(ErrOut(result)) THEN ErrOut(result)
               ELSE <<"No", "error", "output", "from", "rclone">>]

\* result.error?.includes('not configured') ? 400 : 500
SyncStatus(result) ==
  IF Includes(result.error, <<"not", "configured">>) THEN 400 ELSE 500

\* the answer of POST /storage/sync to a SyncResult
SyncAnswer(result) ==
  [kind |-> "returned",
   status |-> IF result.success THEN 200 ELSE SyncStatus(result),
   value |-> result]

\* diagnostics.endpoint
EndpointOf(accountId) ==
  IF TruthySeq(accountId)
  THEN <<"https://">> \o accountId \o <<".r2.cloudflarestorage.com">>
  ELSE <<"(not set)">>

\* diagnostics.r2_access_key_id_preview
AccessKeyPreview(accessKey) ==
  IF Len(accessKey) >= 8
  THEN SubSeq(accessKey, 1, 4) \o <<"...">>
         \o SubSeq(accessKey, Len(accessKey) - 3, Len(accessKey))
  ELSE IF TruthySeq(accessKey) THEN <<"(too short)">>
  ELSE <<"(not set)">>

\* the answer of GET /storage/test
TestAnswer(result, e) ==
  [kind |-> "returned", status |-> 200,
   value |-> [ok |-> result.success, bucket |-> getR2BucketName(e),
              stdout |-> result.stdout, stderr |-> result.stderr,
              output |->
                SliceLast(IF TruthySeq(result.stdout)
                             /\ TruthySeq(result.stderr)
                          THEN result.stdout \o <<"\n">> \o result.stderr
                          ELSE result.stdout \o result.stderr,
                          DETAILS_TAIL),
              exitCode |-> result.exitCode,
              endpoint |-> EndpointOf(TrimmedSecrets(e).accountId),
              cf_account_id_length |-> Len(TrimmedSecrets(e).accountId),
              r2_access_key_id_preview |->
                AccessKeyPreview(TrimmedSecrets(e).accessKey)]]

\* the three secrets as GET /storage and GET /storage/test test them
hasCredentials(e) ==
  /\ TruthySeq(e.R2_ACCESS_KEY_ID)
  /\ TruthySeq(e.R2_SECRET_ACCESS_KEY)
  /\ TruthySeq(e.CF_ACCOUNT_ID)

\* the answer of GET /storage; lastSync 0 stands for null
StatusAnswer(e, lastSync) ==
  [kind |-> "returned", status |-> 200,
   value |-> [configured |-> hasCredentials(e),
              missing |-> {n \in {"R2_ACCESS_KEY_ID", "R2_SECRET_ACCESS_KEY",
                                  "CF_ACCOUNT_ID"} : ~TruthySeq(e[n])},
              lastSync |-> lastSync]]

TestNotConfigured(e) ==
  [kind |-> "returned", status |-> 200,
   value |-> [ok |-> FALSE, error |-> <<"R2", "not", "configured">>,
              missing |-> {n \in {"R2_ACCESS_KEY_ID", "R2_SECRET_ACCESS_KEY",
                                  "CF_ACCOUNT_ID"} : ~TruthySeq(e[n])}]]

\* the call rejects: neither handler catches
Rejected(message, at) ==
  [kind |-> "threw", message |-> message, at |-> at]

\* the locals of a call that starts now
NewCall(op) ==
  [op |-> op, at |-> "entry", phase |-> "none", configDir |-> Null,
   result |-> NoRunResult, configOk |-> FALSE, sandboxCalls |-> 0,
   confBefore |-> sbx.conf, markerBefore |-> sbx.marker]

InitSync ==
  /\ env \in SecretEnvs
  /\ opts = [type |-> "json", redirectOnMissing |-> FALSE]
  /\ req = [queryToken |-> Null, gatewayTokenHeader |-> Undef,
            jwtHeader |-> UndefSeq, cookie |-> NullSeq]
  /\ pc = "handler"
  /\ accessUser = {DevUser}
  /\ response = NoResponse
  /\ nextCalls = 1
  /\ verifyCalls = <<>>
  /\ verifyOk = FALSE
  /\ sandboxOps = {}
  /\ extracted = <<>>
  /\ \E l \in Layouts :
       sbx = [EmptySandbox EXCEPT !.openclaw = l.openclaw,
                                  !.clawdbot = l.clawdbot,
                                  !.workspace = l.workspace,
                                  !.skills = l.skills]
  /\ storage = NoCall
  /\ toolRuns = {}
  /\ outcome = NoOutcome
  /\ clock = 0
  /\ devices = NoDevices
  /\ pairing = NoPairing
  /\ bucket = EmptyBucket
  /\ update = NoUpdate

\* the call ends with the answer a
Finish(st, a) ==
  /\ storage' = [st EXCEPT !.at = "done"]
  /\ outcome' = a

\* a sandbox call of the step rejects
Throws(st) ==
  \E message \in SandboxErrors : Finish(st, Rejected(message, storage.at))

\* one more call of the sandbox API
Called(st) == [st EXCEPT !.sandboxCalls = @ + 1]

\* a request arrives: the entry checks of syncToR2 (hasR2Config) and of
\* GET /storage/test and GET /storage (the untrimmed test)
StorageRequest ==
  /\ storage.at \in {"idle", "done"}
  /\ clock < MaxCalls
  /\ clock' = clock + 1
  /\ toolRuns' = {}
  /\ \E op \in {"sync", "test", "status"} :
       IF op = "sync"
       THEN IF ~hasR2Config(env)
            THEN Finish(NewCall(op),
                        SyncAnswer([success |-> FALSE,
                                    error |-> NotConfiguredError]))
            ELSE /\ storage' = [NewCall(op) EXCEPT !.at = "detect"]
                 /\ outcome' = NoOutcome
       ELSE IF op = "status"
       THEN IF ~hasCredentials(env)
            THEN Finish(NewCall(op), StatusAnswer(env, 0))
            ELSE /\ storage' = [NewCall(op) EXCEPT !.at = "statusCat"]
                 /\ outcome' = NoOutcome
       ELSE IF ~hasCredentials(env)
            THEN Finish(NewCall(op), TestNotConfigured(env))
            ELSE /\ storage' = [NewCall(op) EXCEPT !.at = "rcEntry",
                                                   !.phase = "test"]
                 /\ outcome' = NoOutcome
  /\ UNCHANGED <<env, sbx, bucket, nonStorageVars>>

\* the worker's secrets are changed between two requests
Rotate ==
  /\ storage.at \in {"idle", "done"}
  /\ clock < MaxCalls
  /\ \E e \in SecretEnvs \ {env} : env' = e
  /\ storage' = NoCall
  /\ outcome' = NoOutcome
  /\ toolRuns' = {}
  /\ UNCHANGED <<sbx, clock, bucket, nonStorageVars>>

\* await detectConfigDir(sandbox) and the check of its result
Detect ==
  /\ storage.at = "detect"
  /\ \/ LET dir == detectConfigDir(DetectOutput(sbx))
        IN IF dir = Null
           THEN Finish(Called(storage),
                       SyncAnswer([success |-> FALSE,
                                   error |-> NoConfigFoundError,
                                   details |-> "Neither openclaw.json nor clawdbot.json found in config directory."]))
           ELSE /\ storage' = [Called(storage) EXCEPT !.at = "rcEntry",
                                                      !.phase = "config",
                                                      !.configDir = dir]
                /\ UNCHANGED outcome
     \/ Throws(Called(storage))
  /\ UNCHANGED <<env, sbx, toolRuns, clock, bucket, nonStorageVars>>

\* runRcloneWithFreshConfig up to the check of the trimmed secrets
RcEntry ==
  /\ storage.at = "rcEntry"
  /\ LET s == TrimmedSecrets(env)
     IN IF ~TruthySeq(s.accessKey) \/ ~TruthySeq(s.secretKey)
           \/ ~TruthySeq(s.accountId)
        THEN storage' = [storage EXCEPT !.at = "rcReturn",
                                        !.result = RunNotConfigured]
        ELSE storage' = [storage EXCEPT !.at = "rcWrite"]
  /\ UNCHANGED <<env, sbx, toolRuns, outcome, clock, bucket, nonStorageVars>>

\* mutant: a credential file that is already there is used as it is
RcWrite_keepsExisting ==
  /\ storage.at = "rcWrite"
  /\ \/ LET s == TrimmedSecrets(env)
        IN /\ sbx' = IF sbx.conf # <<>> THEN sbx
                     ELSE [sbx EXCEPT !.conf =
                             <<buildRcloneConfigContent(
                                 s.accessKey, s.secretKey, s.accountId)>>]
           /\ storage' = [Called(storage) EXCEPT !.at = "rcExec"]
           /\ UNCHANGED outcome
     \/ Throws(Called(storage)) /\ UNCHANGED sbx
  /\ UNCHANGED <<env, toolRuns, clock, bucket, nonStorageVars>>

\* await sandbox.writeFile(RCLONE_TEMP_CONFIG, configContent)
RcWrite ==
  /\ storage.at = "rcWrite"
  /\ \/ LET s == TrimmedSecrets(env)
        IN /\ sbx' = [sbx EXCEPT !.conf =
                        <<buildRcloneConfigContent(
                            s.accessKey, s.secretKey, s.accountId)>>]
           /\ storage' = [Called(storage) EXCEPT !.at = "rcExec"]
           /\ UNCHANGED outcome
     \/ Throws(Called(storage)) /\ UNCHANGED sbx
  /\ UNCHANGED <<env, toolRuns, clock, bucket, nonStorageVars>>

\* the bucket after a run of the tool: a completed transfer of
\* /root/.openclaw leaves the bucket with that directory's override file
Transferred(o, phase, dir) ==
  IF o = "transferred" /\ phase = "config" /\ dir = "/root/.openclaw"
  THEN [bucket EXCEPT !.override = sbx.override]
  ELSE bucket

\* await sandbox.exec(`rclone ${command} --config ... 2>&1 || true`)
RcExec ==
  /\ storage.at = "rcExec"
  /\ \E o \in ToolOutcomes :
       /\ toolRuns' = toolRuns \cup
            {[phase |-> storage.phase, dir |-> storage.configDir,
              creds |-> sbx.conf, env |-> env, outcome |-> o]}
       /\ bucket' = Transferred(o, storage.phase, storage.configDir)
       /\ IF o = "throws"
          THEN Throws(Called(storage))
          ELSE /\ storage' = [Called(storage) EXCEPT
                                !.at = "rcRm",
                                !.result = RunResult(ExecResult(o))]
               /\ UNCHANGED outcome
  /\ UNCHANGED <<env, sbx, clock, nonStorageVars>>

\* await sandbox.exec(`rm -f ${RCLONE_TEMP_CONFIG}`)
RcRm ==
  /\ storage.at = "rcRm"
  /\ \/ /\ sbx' = [sbx EXCEPT !.conf = <<>>]
        /\ storage' = [Called(storage) EXCEPT !.at = "rcReturn"]
        /\ UNCHANGED outcome
     \/ Throws(Called(storage)) /\ UNCHANGED sbx
  /\ UNCHANGED <<env, toolRuns, clock, bucket, nonStorageVars>>

\* runRcloneWithFreshConfig returns to its caller
RcReturn ==
  /\ storage.at = "rcReturn"
  /\ CASE storage.phase = "config" ->
            IF ~storage.result.success
            THEN Finish(storage, SyncAnswer(ConfigSyncFailed(storage.result)))
            ELSE /\ storage' = [storage EXCEPT !.at = "testWorkspace",
                                               !.configOk = TRUE]
                 /\ UNCHANGED outcome
       [] storage.phase = "workspace" ->
            /\ storage' = [storage EXCEPT !.at = "testSkills"]
            /\ UNCHANGED outcome
       [] storage.phase = "skills" ->
            /\ storage' = [storage EXCEPT !.at = "date"]
            /\ UNCHANGED outcome
       [] storage.phase = "test" ->
            IF ~storage.result.success
            THEN /\ storage' = [storage EXCEPT !.at = "rcEntry",
                                               !.phase = "retry"]
                 /\ UNCHANGED outcome
            ELSE Finish(storage, TestAnswer(storage.result, env))
       [] OTHER -> Finish(storage, TestAnswer(storage.result, env))
  /\ UNCHANGED <<env, sbx, toolRuns, clock, bucket, nonStorageVars>>

\* await sandbox.exec('test -d /root/clawd && echo yes'), and the same for
\* /root/clawd/skills
TestDir ==
  /\ storage.at \in {"testWorkspace", "testSkills"}
  /\ \/ LET workspace == storage.at = "testWorkspace"
            exists == IF workspace THEN sbx.workspace ELSE sbx.skills
        IN /\ storage' =
                IF exists
                THEN [Called(storage) EXCEPT
                        !.at = "rcEntry",
                        !.phase = IF workspace THEN "workspace" ELSE "skills"]
                ELSE [Called(storage) EXCEPT
                        !.at = IF workspace THEN "testSkills" ELSE "date"]
           /\ UNCHANGED outcome
     \/ Throws(Called(storage))
  /\ UNCHANGED <<env, sbx, toolRuns, clock, bucket, nonStorageVars>>

\* await sandbox.exec(`date -Iseconds > ${LAST_SYNC_FILE}`)
WriteMarker ==
  /\ storage.at = "date"
  /\ \/ /\ sbx' = [sbx EXCEPT !.marker = clock]
        /\ storage' = [Called(storage) EXCEPT !.at = "cat"]
        /\ UNCHANGED outcome
     \/ Throws(Called(storage)) /\ UNCHANGED sbx
  /\ UNCHANGED <<env, toolRuns, clock, bucket, nonStorageVars>>

\* await sandbox.exec(`cat ${LAST_SYNC_FILE}`) and the result of syncToR2
ReadMarker ==
  /\ storage.at = "cat"
  /\ \/ Finish(Called(storage),
               SyncAnswer([success |-> TRUE, lastSync |-> sbx.marker]))
     \/ Throws(Called(storage))
  /\ UNCHANGED <<env, sbx, toolRuns, clock, bucket, nonStorageVars>>

\* GET /storage: sandbox.exec('cat /tmp/.last-sync 2>/dev/null || echo ""'),
\* whose errors are ignored
StatusCat ==
  /\ storage.at = "statusCat"
  /\ \/ Finish(Called(storage), StatusAnswer(env, sbx.marker))
     \/ Finish(Called(storage), StatusAnswer(env, 0))
  /\ UNCHANGED <<env, sbx, toolRuns, clock, bucket, nonStorageVars>>

NextSync ==
  \/ StorageRequest
  \/ StatusCat
  \/ Rotate
  \/ Detect
  \/ RcEntry
  \/ RcWrite
  \/ RcExec
  \/ RcRm
  \/ RcReturn
  \/ TestDir
  \/ WriteMarker
  \/ ReadMarker

SpecSync == InitSync /\ [][NextSync]_vars

-----------------------------------------------------------------------------
(* Properties of the storage operations (SpecSync) *)

\* no call is in flight
AtRest == storage.at \in {"idle", "done"}

\* a secret is set and is more than blanks
Present(secret) ==
  secret # UndefSeq /\ \E k \in 1..Len(secret) : secret[k] # " "

\* all three storage secrets are configured
SecretsConfigured(e) ==
  /\ Present(e.R2_ACCESS_KEY_ID)
  /\ Present(e.R2_SECRET_ACCESS_KEY)
  /\ Present(e.CF_ACCOUNT_ID)

\* a secret as it belongs into the credential file: no blanks around it, no
\* line breaks in it
Cleaned(secret) ==
  LET kept == SelectSeq(secret, LAMBDA ch : ch # "\n")
      first == CHOOSE k \in 1..Len(kept) :
                 kept[k] # " " /\ \A j \in 1..(k - 1) : kept[j] = " "
      last == CHOOSE k \in 1..Len(kept) :
                kept[k] # " " /\ \A j \in (k + 1)..Len(kept) : kept[j] = " "
  IN SubSeq(kept, first, last)

\* C15 as claimed: whenever no runRcloneWithFreshConfig call is in flight,
\* whatever way the last one ended, the temporary credential file does not
\* exist in the sandbox.
C15_NoCredentialFileAfterCall == AtRest => sbx.conf = <<>>

\* C16: every execution of the transfer tool reads a credential file built
\* from the secrets of the very call that runs it, also when an older file
\* was left behind and the secrets were changed since; a call with missing
\* secrets runs the tool not at all.
C16_FreshBundleEveryRun ==
  /\ \A r \in toolRuns :
       /\ SecretsConfigured(r.env)
       /\ Len(r.creds) = 1
       /\ r.creds[1].access_key_id = Cleaned(r.env.R2_ACCESS_KEY_ID)
       /\ r.creds[1].secret_access_key = Cleaned(r.env.R2_SECRET_ACCESS_KEY)
       /\ r.creds[1].endpoint =
            <<"https://">> \o Cleaned(r.env.CF_ACCOUNT_ID)
              \o <<".r2.cloudflarestorage.com">>
  /\ (storage.op # "none" /\ ~SecretsConfigured(env)) => toolRuns = {}

C16_Witness ==
  /\ clock = 2
  /\ storage.confBefore # <<>>
  /\ \E r \in toolRuns :
       /\ r.creds # storage.confBefore
       /\ r.env.R2_ACCESS_KEY_ID = <<"a2", " ">>

\* the transfer tool failed, or did not complete, on the config directory
ConfigTransferFailed ==
  \E r \in toolRuns :
     r.phase = "config" /\ r.outcome \in {"toolFailed", "execFailed"}

\* C17 as claimed: if the transfer tool fails on the config directory,
\* syncToR2 returns success:false 'Config sync failed', starts no workspace or
\* skills transfer and does not write the last-sync marker.
C17_ConfigFailureFatal ==
  (storage.op = "sync" /\ ConfigTransferFailed) =>
    /\ \A r \in toolRuns : r.phase = "config"
    /\ sbx.marker = storage.markerBefore
    /\ (storage.at = "done" /\ outcome.kind = "returned") =>
         /\ ~outcome.value.success
         /\ outcome.value.error = ConfigSyncFailedError

\* nothing but a step of a transfer (writing the credential file, running
\* the tool, removing the file) has raised an error
OnlyTransfersErrored ==
  outcome.kind = "threw" => outcome.at \in {"rcWrite", "rcExec", "rcRm"}

\* C18 as claimed: whenever the config directory sync succeeded, syncToR2
\* returns success:true with a non-empty lastSync and has written the marker,
\* whether the workspace or skills directory is absent or its transfer fails,
\* times out or errors.
C18_OptionalSyncsNonFatal ==
  (/\ storage.op = "sync" /\ storage.configOk /\ storage.at = "done"
   /\ OnlyTransfersErrored) =>
    /\ outcome.kind = "returned"
    /\ outcome.value.success
    /\ outcome.value.lastSync # 0
    /\ sbx.marker = clock

\* C19: a sync with a storage secret missing (undefined, empty or blank)
\* ends at once with success:false and an error containing 'not configured'
\* (a 400 of the endpoint), without any call of the sandbox: no tool run, no
\* credential file written, the marker untouched.
C19_NotConfiguredNoSandboxCall ==
  (storage.op = "sync" /\ ~SecretsConfigured(env)) =>
    /\ storage.at = "done"
    /\ outcome.kind = "returned"
    /\ ~outcome.value.success
    /\ Includes(outcome.value.error, <<"not", "configured">>)
    /\ outcome.status = 400
    /\ storage.sandboxCalls = 0
    /\ toolRuns = {}
    /\ sbx.conf = storage.confBefore
    /\ sbx.marker = storage.markerBefore

C19_Witness ==
  /\ storage.op = "sync"
  /\ storage.at = "done"
  /\ env.R2_SECRET_ACCESS_KEY = <<" ">>
  /\ outcome.status = 400
  /\ clock = 2
  /\ sbx.marker = 1

\* C20: with the secrets configured and neither config layout in the
\* sandbox, a sync runs no transfer and leaves the marker alone, and what it
\* returns is success:false with the no-config-found error, which does not
\* contain 'not configured' (a 500 of the endpoint); with both layouts in the
\* sandbox the one directory synced as config is /root/.openclaw.
C20_NoLayoutIsDistinctFatal ==
  /\ (storage.op = "sync" /\ SecretsConfigured(env)
      /\ ~sbx.openclaw /\ ~sbx.clawdbot) =>
       /\ toolRuns = {}
       /\ sbx.marker = storage.markerBefore
       /\ (storage.at = "done" /\ outcome.kind = "returned") =>
            /\ ~outcome.value.success
            /\ outcome.value.error = NoConfigFoundError
            /\ outcome.value.error # NotConfiguredError
            /\ ~Includes(outcome.value.error, <<"not", "configured">>)
            /\ outcome.status = 500
  /\ (storage.op = "sync" /\ sbx.openclaw /\ sbx.clawdbot) =>
       \A r \in toolRuns : r.phase = "config" => r.dir = "/root/.openclaw"

C20_Witness ==
  /\ storage.op = "sync"
  /\ storage.at = "done"
  /\ SecretsConfigured(env)
  /\ ~sbx.openclaw /\ ~sbx.clawdbot
  /\ outcome.kind = "returned"
  /\ outcome.status = 500

\* the executions of the storage-size query of a probe, by attempt
ProbeRuns(phase) == {r \in toolRuns : r.phase = phase}

\* C21 as claimed: the probe, when it answers, has run the query once if the
\* first attempt succeeded and twice if it failed (a failure of the transfer
\* tool included), and answers with the second attempt's result as it is.
C21_RetriesExactlyOnce ==
  (/\ storage.op = "test" /\ storage.at = "done"
   /\ outcome.kind = "returned" /\ ProbeRuns("test") # {}) =>
    LET first == CHOOSE r \in ProbeRuns("test") : TRUE
    IN /\ Cardinality(ProbeRuns("test")) = 1
       /\ Cardinality(ProbeRuns("retry")) <= 1
       /\ first.outcome = "transferred" =>
            ProbeRuns("retry") = {} /\ outcome.value.ok
       /\ first.outcome # "transferred" =>
            /\ ProbeRuns("retry") # {}
            /\ \A r \in ProbeRuns("retry") :
                 outcome.value.ok = (r.outcome = "transferred")

\* the probe has answered with its diagnostics
ProbeAnswered ==
  /\ storage.op = "test" /\ storage.at = "done"
  /\ outcome.kind = "returned"
  /\ "endpoint" \in DOMAIN outcome.value

\* the texts of the probe's answer
ProbeTexts ==
  {outcome.value.stdout, outcome.value.stderr, outcome.value.output,
   outcome.value.endpoint, outcome.value.r2_access_key_id_preview}

\* C22 as claimed: with the secrets configured, no text of the probe's answer
\* contains the whole account id, the whole access key or the secret key.
C22_OnlyMaskedPreviews ==
  (ProbeAnswered /\ SecretsConfigured(env)) =>
    \A text \in ProbeTexts :
       /\ ~Includes(text, TrimmedSecrets(env).accountId)
       /\ ~Includes(text, TrimmedSecrets(env).accessKey)
       /\ ~Includes(text, TrimmedSecrets(env).secretKey)

\* C24 as claimed: no exception escapes a storage handler.
C24_NoExceptionEscapes == outcome.kind # "threw"

\* the probe's credential check let the request pass
ProbePassedCheck ==
  \/ storage.at # "done"
  \/ outcome.kind = "threw"
  \/ "bucket" \in DOMAIN outcome.value

\* C29 as claimed: GET /storage reports configured:true, and the probe passes
\* its credential check, exactly when all three secrets are non-empty after
\* trimming.
C29_ConfiguredAgrees ==
  /\ (storage.op = "status" /\ storage.at = "done") =>
       outcome.value.configured = SecretsConfigured(env)
  /\ storage.op = "test" => (ProbePassedCheck <=> SecretsConfigured(env))

-----------------------------------------------------------------------------
(* SpecCompare: the bootstrap branch's comparison of the supplied gateway
   token with the configured one, on tokens as sequences of code units *)

MaxTokenLen == 3

RECURSIVE TokensUpTo(_)
TokensUpTo(n) ==
  IF n = 0 THEN {<<>>}
  ELSE LET shorter == TokensUpTo(n - 1) IN
       shorter \cup {Append(t, u) : t \in shorter, u \in {"a", "b"}}

\* the number of leading code units in which p and e agree
RECURSIVE MatchingPrefix(_, _)
MatchingPrefix(p, e) ==
  IF p = <<>> \/ e = <<>> \/ Head(p) # Head(e) THEN 0
  ELSE 1 + MatchingPrefix(Tail(p), Tail(e))

\* the code units `p === e` examines. The language fixes the result only; an
\* engine compares the lengths and then either stops at the first code unit
\* that differs or goes through all of them
StrictEqualsUnits(p, e) ==
  IF Len(p) # Len(e) THEN {0}
  ELSE {IF p = e THEN Len(p) ELSE MatchingPrefix(p, e) + 1, Len(p)}

\* providedToken && gatewayToken && providedToken === gatewayToken, with the
\* code units the comparison examined
CompareTokens(providedToken, gatewayToken) ==
  IF TruthySeq(providedToken) /\ TruthySeq(gatewayToken)
  THEN {[equal |-> providedToken = gatewayToken, units |-> u] :
          u \in StrictEqualsUnits(providedToken, gatewayToken)}
  ELSE {[equal |-> FALSE, units |-> 0]}

InitCompare ==
  /\ env \in [DEV_MODE : {Undef}, E2E_TEST_MODE : {Undef},
               CF_ACCESS_TEAM_DOMAIN : {Undef}, CF_ACCESS_AUD : {Undef},
               GATEWAY_TOKEN : TokensUpTo(MaxTokenLen) \ {<<>>},
               MOLTBOT_GATEWAY_TOKEN : {Undef}]
  /\ opts = [type |-> "json", redirectOnMissing |-> FALSE]
  /\ req \in [queryToken : TokensUpTo(MaxTokenLen) \cup {NullSeq},
               gatewayTokenHeader : {Undef},
               jwtHeader : {UndefSeq}, cookie : {NullSeq}]
  /\ pc = "start"
  /\ accessUser = {}
  /\ response = NoResponse
  /\ nextCalls = 0
  /\ verifyCalls = <<>>
  /\ verifyOk = FALSE
  /\ sandboxOps = {}
  /\ extracted = <<>>
  /\ OtherIdle

\* the bootstrap branch: the comparison, then next() or the 401
CompareStep ==
  /\ pc = "start"
  /\ \E r \in CompareTokens(req.queryToken, env.GATEWAY_TOKEN) :
       /\ extracted' = <<r>>
       /\ IF r.equal
          THEN /\ accessUser' = {BootstrapUser}
               /\ nextCalls' = nextCalls + 1
               /\ UNCHANGED response
          ELSE /\ response' = DenyBootstrap(opts.type)
               /\ UNCHANGED <<accessUser, nextCalls>>
  /\ pc' = "compared"
  /\ UNCHANGED <<env, opts, req, verifyCalls, verifyOk, sandboxOps, otherVars>>

NextCompare == CompareStep

SpecCompare == InitCompare /\ [][NextCompare]_vars

\* the gate compared a supplied token as long as the configured one
ComparedSameLength ==
  /\ pc = "compared"
  /\ TruthySeq(req.queryToken)
  /\ Len(req.queryToken) = Len(env.GATEWAY_TOKEN)

\* C26 as claimed: the comparison does not stop at the first code unit that
\* differs: for a supplied token as long as the secret it examines every
\* code unit, however long the matching prefix is
C26_NoShortCircuit ==
  ComparedSameLength => extracted[1].units = Len(env.GATEWAY_TOKEN)

-----------------------------------------------------------------------------
(* SpecRace: runRcloneWithFreshConfig called by requests that are handled
   concurrently in one sandbox; the calls interleave at their awaits. Here
   storage and outcome hold one entry per request *)

MaxInFlight == 2

InFlight == 1..MaxInFlight

\* configContent of a call made with the secrets of e
OwnConfig(e) ==
  LET s == TrimmedSecrets(e)
  IN buildRcloneConfigContent(s.accessKey, s.secretKey, s.accountId)

InitRace ==
  /\ env \in {e \in SecretEnvs : hasR2Config(e)}
  /\ opts = [type |-> "json", redirectOnMissing |-> FALSE]
  /\ req = [queryToken |-> Null, gatewayTokenHeader |-> Undef,
            jwtHeader |-> UndefSeq, cookie |-> NullSeq]
  /\ pc = "handler"
  /\ accessUser = {DevUser}
  /\ response = NoResponse
  /\ nextCalls = 1
  /\ verifyCalls = <<>>
  /\ verifyOk = FALSE
  /\ sandboxOps = {}
  /\ extracted = <<>>
  /\ sbx = [EmptySandbox EXCEPT !.openclaw = TRUE]
  /\ storage = [c \in InFlight |-> NoCall]
  /\ toolRuns = {}
  /\ outcome = [c \in InFlight |-> NoOutcome]
  /\ clock = 0
  /\ devices = NoDevices
  /\ pairing = NoPairing
  /\ bucket = EmptyBucket
  /\ update = NoUpdate

\* a sandbox call of request c rejects and the rejection leaves the call
RaceThrows(c) ==
  /\ \E message \in SandboxErrors :
       outcome' = [outcome EXCEPT ![c] = Rejected(message, storage[c].at)]
  /\ storage' = [storage EXCEPT ![c] = [Called(@) EXCEPT !.at = "done"]]

\* request c calls runRcloneWithFreshConfig: GET /storage/test, or the config
\* transfer of syncToR2
RaceEntry(c) ==
  /\ storage[c].at = "idle"
  /\ \E phase \in {"test", "config"} :
       storage' = [storage EXCEPT ![c] =
                     [NewCall(IF phase = "test" THEN "test" ELSE "sync")
                        EXCEPT !.at = "rcWrite", !.phase = phase]]
  /\ UNCHANGED <<env, sbx, toolRuns, outcome, clock, bucket, nonStorageVars>>

\* await sandbox.writeFile(RCLONE_TEMP_CONFIG, configContent) of request c
RaceWrite(c) ==
  /\ storage[c].at = "rcWrite"
  /\ \/ /\ sbx' = [sbx EXCEPT !.conf = <<OwnConfig(env)>>]
        /\ storage' = [storage EXCEPT ![c] = [Called(@) EXCEPT
                                                !.at = "rcExec"]]
        /\ UNCHANGED outcome
     \/ RaceThrows(c) /\ UNCHANGED sbx
  /\ UNCHANGED <<env, toolRuns, clock, bucket, nonStorageVars>>

\* await sandbox.exec(`rclone ... --config /tmp/rclone-fresh.conf ...`) of
\* request c: the tool reads the file that is there now; without one it
\* cannot transfer
RaceExec(c) ==
  /\ storage[c].at = "rcExec"
  /\ \E o \in IF sbx.conf = <<>> THEN ToolOutcomes \ {"transferred"}
               ELSE ToolOutcomes :
       /\ toolRuns' = toolRuns \cup
            {[call |-> c, phase |-> storage[c].phase, creds |-> sbx.conf,
              env |-> env, outcome |-> o]}
       /\ IF o = "throws"
          THEN RaceThrows(c)
          ELSE /\ storage' = [storage EXCEPT ![c] =
                                [Called(@) EXCEPT
                                   !.at = "rcRm",
                                   !.result = RunResult(ExecResult(o))]]
               /\ UNCHANGED outcome
  /\ UNCHANGED <<env, sbx, clock, bucket, nonStorageVars>>

\* await sandbox.exec(`rm -f ${RCLONE_TEMP_CONFIG}`) of request c, and the
\* return of runRcloneWithFreshConfig
RaceRm(c) ==
  /\ storage[c].at = "rcRm"
  /\ \/ /\ sbx' = [sbx EXCEPT !.conf = <<>>]
        /\ storage' = [storage EXCEPT ![c] = [Called(@) EXCEPT
                                                !.at = "done"]]
        /\ outcome' = [outcome EXCEPT ![c] =
                         [kind |-> "returned", value |-> storage[c].result]]
     \/ RaceThrows(c) /\ UNCHANGED sbx
  /\ UNCHANGED <<env, toolRuns, clock, bucket, nonStorageVars>>

NextRace ==
  \E c \in InFlight :
    \/ RaceEntry(c)
    \/ RaceWrite(c)
    \/ RaceExec(c)
    \/ RaceRm(c)

SpecRace == InitRace /\ [][NextRace]_vars

\* C28 as claimed: every transfer command of every in-flight call ran while
\* the credential file existed and held the credentials of its own call
C28_OwnCredentialFileAtExec ==
  \A r \in toolRuns : r.creds = <<OwnConfig(r.env)>>

-----------------------------------------------------------------------------
(* SpecUpdate: one request to POST /openclaw/update, with the calls of
   syncToR2 it makes (the actions of SpecSync from Detect on) *)

MaxVersionLen == 5

RECURSIVE VersionsUpTo(_)
VersionsUpTo(n) ==
  IF n = 0 THEN {<<>>}
  ELSE LET shorter == VersionsUpTo(n - 1) IN
       shorter \cup {Append(t, ch) : t \in shorter,
                                     ch \in {"1", ".", "v", " "}}

\* what c.req.json() gives: a rejection, an object without version, an object
\* with a version string (the short ones, and "2026.2.12", "v1.2", "1.2",
\* "1.2.3.4")
UpdateBodies ==
  {[json |-> FALSE, version |-> UndefSeq]}
  \cup {[json |-> TRUE, version |-> v] :
          v \in {UndefSeq} \cup VersionsUpTo(MaxVersionLen)
                \cup {<<"2", "0", "2", "6", ".", "2", ".", "1", "2">>,
                      <<"v", "1", ".", "2">>,
                      <<"1", ".", "2">>,
                      <<"1", ".", "2", ".", "3", ".", "4">>}}

\* [0-9]
Digits == {"0", "1", "2", "3", "4", "5", "6", "7", "8", "9"}

\* one step of the matcher of /^[0-9]+\.[0-9]+\.[0-9]+$/
SemverStep(q, ch) ==
  CASE q \in {"^", "major"} /\ ch \in Digits -> "major"
    [] q = "major" /\ ch = "." -> "majorDot"
    [] q \in {"majorDot", "minor"} /\ ch \in Digits -> "minor"
    [] q = "minor" /\ ch = "." -> "minorDot"
    [] q \in {"minorDot", "patch"} /\ ch \in Digits -> "patch"
    [] OTHER -> "fail"

RECURSIVE SemverRun(_, _)
SemverRun(version, q) ==
  IF version = <<>> THEN q
  ELSE SemverRun(Tail(version), SemverStep(q, Head(version)))

\* mutant: the pattern is not anchored at the end
IsSemver_unanchored(version) ==
  \E k \in 1..Len(version) : SemverRun(SubSeq(version, 1, k), "^") = "patch"

\* /^[0-9]+\.[0-9]+\.[0-9]+$/.test(version)
IsSemver(version) == SemverRun(version, "^") = "patch"

NoProc == [cmd |-> "none", status |-> "none", exitCode |-> NoExitCode,
           timedOut |-> FALSE]

\* sandbox.startProcess(cmd, {timeout})
StartedCommand(cmd) ==
  [cmd |-> cmd, status |-> "running", exitCode |-> NoExitCode,
   timedOut |-> FALSE]

\* the version-override file and the installed version before the request
OldVersion == <<"1", ".", "0", ".", "0">>

\* what the update handler never touches
updateFrame ==
  <<env, opts, req, pc, accessUser, nextCalls, verifyCalls, verifyOk,
    sandboxOps, extracted, devices, pairing>>

InitUpdate ==
  /\ env \in {e \in SecretEnvs :
               /\ e.R2_ACCESS_KEY_ID \in {<<"a1">>, UndefSeq}
               /\ e.R2_SECRET_ACCESS_KEY = <<"s1">>
               /\ e.CF_ACCOUNT_ID = <<"acct">>}
  /\ opts = [type |-> "json", redirectOnMissing |-> FALSE]
  /\ \E body \in UpdateBodies :
       req = [queryToken |-> Null, gatewayTokenHeader |-> Undef,
              jwtHeader |-> UndefSeq, cookie |-> NullSeq, body |-> body]
  /\ pc = "handler"
  /\ accessUser = {DevUser}
  /\ response = NoResponse
  /\ nextCalls = 1
  /\ verifyCalls = <<>>
  /\ verifyOk = FALSE
  /\ sandboxOps = {}
  /\ extracted = <<>>
  /\ \E legacy, running \in BOOLEAN, prior \in {NoVersion, OldVersion} :
       /\ sbx = [EmptySandbox EXCEPT !.openclaw = ~legacy,
                                     !.clawdbot = legacy,
                                     !.override = prior,
                                     !.installed = OldVersion,
                                     !.gateway = running]
       /\ bucket = [override |-> prior]
       /\ update = [at |-> "handler", version |-> NoVersion,
                    syncPersisted |-> FALSE, proc |-> NoProc,
                    before |-> [override |-> prior, remote |-> prior,
                                installed |-> OldVersion,
                                gateway |-> running]]
  /\ storage = NoCall
  /\ toolRuns = {}
  /\ outcome = NoOutcome
  /\ clock = 0
  /\ devices = NoDevices
  /\ pairing = NoPairing

\* the handler answers
UpdateAnswer(resp) ==
  /\ response' = resp
  /\ update' = [update EXCEPT !.at = "done"]

\* the outer catch block: c.json({error: msg}, 500)
UpdateThrows ==
  \E message \in SandboxErrors : UpdateAnswer(ErrorResponse(500, message))

\* c.req.json(), body.version?.trim() and the two checks of the version
UpdateValidate ==
  /\ update.at = "handler"
  /\ LET body == req.body
         version == OptTrim(body.version)
     IN IF ~body.json
        THEN UpdateAnswer(ErrorResponse(400, "Invalid JSON body"))
        ELSE IF ~TruthySeq(version)
        THEN UpdateAnswer(ErrorResponse(400, "Missing \"version\" in body"))
        ELSE IF ~IsSemver(version)
        THEN UpdateAnswer(ErrorResponse(400, "Version must be semver"))
        ELSE /\ update' = [update EXCEPT !.at = "ensure",
                                         !.version = version]
             /\ UNCHANGED response
  /\ UNCHANGED <<updateFrame, sbx, storage, toolRuns, outcome, clock, bucket>>

\* await ensureMoltbotGateway(sandbox, c.env): the gateway runs afterwards,
\* or the call rejects
UpdateEnsureGateway ==
  /\ update.at = "ensure"
  /\ \/ /\ sbx' = [sbx EXCEPT !.gateway = TRUE]
        /\ update' = [update EXCEPT !.at = "writeOverride"]
        /\ UNCHANGED response
     \/ UpdateThrows /\ UNCHANGED sbx
  /\ UNCHANGED <<updateFrame, storage, toolRuns, outcome, clock, bucket>>

\* await sandbox.writeFile('/root/.openclaw/clawworker-version-override',
\* version)
UpdateWriteOverride ==
  /\ update.at = "writeOverride"
  /\ \/ /\ sbx' = [sbx EXCEPT !.override = update.version]
        /\ update' = [update EXCEPT !.at = "sync"]
        /\ UNCHANGED response
     \/ UpdateThrows /\ UNCHANGED sbx
  /\ UNCHANGED <<updateFrame, storage, toolRuns, outcome, clock, bucket>>

\* the handler calls syncToR2: after the override file is written, and after
\* a successful doctor run
UpdateSyncStart ==
  /\ update.at \in {"sync", "doctorSync"}
  /\ clock' = clock + 1
  /\ IF ~hasR2Config(env)
     THEN Finish(NewCall("sync"),
                 SyncAnswer([success |-> FALSE,
                             error |-> NotConfiguredError]))
     ELSE /\ storage' = [NewCall("sync") EXCEPT !.at = "detect"]
          /\ outcome' = NoOutcome
  /\ update' = [update EXCEPT !.at = IF @ = "sync" THEN "syncWait"
                                     ELSE "doctorSyncWait"]
  /\ UNCHANGED <<updateFrame, response, sbx, toolRuns, bucket>>

\* syncToR2 has settled: `const syncResult = await syncToR2(...)`, whose
\* rejection goes to the outer catch; the one after doctor is inside the
\* inner try and its result is not used
UpdateSyncDone ==
  /\ update.at \in {"syncWait", "doctorSyncWait"}
  /\ storage.at = "done"
  /\ IF update.at = "doctorSyncWait"
     THEN /\ update' = [update EXCEPT !.at = "findGateway"]
          /\ UNCHANGED response
     ELSE IF outcome.kind = "threw"
     THEN UpdateAnswer(ErrorResponse(500, outcome.message))
     ELSE /\ update' = [update EXCEPT !.at = "installStart",
                                      !.syncPersisted = outcome.value.success]
          /\ UNCHANGED response
  /\ storage' = NoCall
  /\ UNCHANGED <<updateFrame, sbx, toolRuns, outcome, clock, bucket>>

\* await sandbox.startProcess(`npm install -g openclaw@${version}`)
UpdateInstallStart ==
  /\ update.at = "installStart"
  /\ \/ /\ update' = [update EXCEPT !.at = "installWait",
                                    !.proc = StartedCommand("install")]
        /\ UNCHANGED response
     \/ UpdateThrows
  /\ UNCHANGED <<updateFrame, sbx, storage, toolRuns, outcome, clock, bucket>>

\* the process the handler waits for exits; npm exiting with 0 has installed
\* the requested version
UpdateProcExit ==
  /\ update.at \in {"installWait", "doctorWait"}
  /\ update.proc.status = "running"
  /\ \E code \in {0, 1} :
       /\ update' = [update EXCEPT !.proc.status = "exited",
                                   !.proc.exitCode = code]
       /\ sbx' = IF update.proc.cmd = "install" /\ code = 0
                 THEN [sbx EXCEPT !.installed = update.version]
                 ELSE sbx
  /\ UNCHANGED <<updateFrame, response, storage, toolRuns, outcome, clock,
                 bucket>>

\* await waitForProcess(installProc, 120000), installProc.getLogs() and the
\* test of the exit code
UpdateInstallWait ==
  /\ update.at = "installWait"
  /\ \/ \E proc \in waitForProcess(update.proc, 120000) :
          IF proc.exitCode # 0
          THEN /\ response' = [shape |-> "json", status |-> 500,
                               error |-> "npm install failed",
                               stderr |-> <<>>]
               /\ update' = [update EXCEPT !.at = "done", !.proc = proc]
          ELSE /\ update' = [update EXCEPT !.at = "doctorStart",
                                           !.proc = proc]
               /\ UNCHANGED response
     \/ UpdateThrows
  /\ UNCHANGED <<updateFrame, sbx, storage, toolRuns, outcome, clock, bucket>>

\* await sandbox.startProcess('openclaw doctor --fix'); a rejection is
\* caught and ignored
UpdateDoctorStart ==
  /\ update.at = "doctorStart"
  /\ \/ update' = [update EXCEPT !.at = "doctorWait",
                                 !.proc = StartedCommand("doctor")]
     \/ update' = [update EXCEPT !.at = "findGateway"]
  /\ UNCHANGED <<updateFrame, response, sbx, storage, toolRuns, outcome,
                 clock, bucket>>

\* await waitForProcess(doctorProc, 15000) and `doctorProc.exitCode === 0`
UpdateDoctorWait ==
  /\ update.at = "doctorWait"
  /\ \E proc \in waitForProcess(update.proc, 15000) :
       update' = [update EXCEPT !.at = IF proc.exitCode = 0 THEN "doctorSync"
                                       ELSE "findGateway",
                                !.proc = proc]
  /\ UNCHANGED <<updateFrame, response, sbx, storage, toolRuns, outcome,
                 clock, bucket>>

\* await findExistingMoltbotProcess(sandbox), existingProcess.kill() (whose
\* rejection is ignored) and the answer
UpdateFindGateway ==
  /\ update.at = "findGateway"
  /\ \/ /\ \/ sbx' = [sbx EXCEPT !.gateway = FALSE]
           \/ sbx.gateway /\ UNCHANGED sbx
        /\ UpdateAnswer([shape |-> "json", status |-> 200, success |-> TRUE,
                         message |-> <<"Updated to openclaw@">>
                                       \o update.version,
                         syncPersisted |-> update.syncPersisted,
                         warning |-> ~update.syncPersisted])
     \/ UpdateThrows /\ UNCHANGED sbx
  /\ UNCHANGED <<updateFrame, storage, toolRuns, outcome, clock, bucket>>

NextUpdate ==
  \/ UpdateValidate
  \/ UpdateEnsureGateway
  \/ UpdateWriteOverride
  \/ UpdateSyncStart
  \/ UpdateSyncDone
  \/ UpdateInstallStart
  \/ UpdateProcExit
  \/ UpdateInstallWait
  \/ UpdateDoctorStart
  \/ UpdateDoctorWait
  \/ UpdateFindGateway
  \/ Detect
  \/ RcEntry
  \/ RcWrite
  \/ RcExec
  \/ RcRm
  \/ RcReturn
  \/ TestDir
  \/ WriteMarker
  \/ ReadMarker

SpecUpdate == InitUpdate /\ [][NextUpdate]_vars

-----------------------------------------------------------------------------
(* Properties of the version update (SpecUpdate) *)

\* the version is three non-empty numeric components separated by dots
ThreeNumericComponents(version) ==
  LET parts == Split(version, ".")
  IN /\ Len(parts) = 3
     /\ \A k \in 1..Len(parts) :
          /\ parts[k] # <<>>
          /\ \A j \in 1..Len(parts[k]) : parts[k][j] \in Digits

\* the request carries a version that, trimmed, has the three-component form
AcceptableBody ==
  /\ req.body.json
  /\ req.body.version # UndefSeq
  /\ ThreeNumericComponents(Trim(req.body.version))

UpdateRejected == update.at = "done" /\ response.status = 400

\* nothing the update does has happened: no file written, nothing synced,
\* nothing installed, no process started, the gateway as it was
UpdateNoSideEffect ==
  /\ sbx.override = update.before.override
  /\ sbx.installed = update.before.installed
  /\ sbx.gateway = update.before.gateway
  /\ sbx.conf = <<>>
  /\ bucket.override = update.before.remote
  /\ toolRuns = {}
  /\ storage = NoCall
  /\ update.proc = NoProc

InstallFailed ==
  /\ update.at = "done"
  /\ response.status = 500
  /\ response.error = "npm install failed"

\* C30 as claimed: after an answer that the install failed, the override file
\* and the bucket's copy of it are what they were before the request, and a
\* gateway that was running still runs
C30_FailedUpdateLeavesState ==
  InstallFailed =>
    /\ sbx.override = update.before.override
    /\ bucket.override = update.before.remote
    /\ update.before.gateway => sbx.gateway

====
